---- MODULE Spec2Model ----
(***************************************************************************)
(* The iteration control loop and job lifecycle of the Emergent Builder    *)
(* coordinator (src/coordinator.ts, the API-driven EmergentBuilder class,  *)
(* lines 477-1082).                                                         *)
(*                                                                         *)
(* The coordinator is one single-threaded JavaScript process.  Code between*)
(* two `await`s runs atomically, so every action below is one such stretch *)
(* of code: it starts when an awaited external call settles (resolves or   *)
(* rejects) and runs up to the next external call.  The workers of one     *)
(* batch are promises running concurrently in that process: their          *)
(* stretches interleave.                                                   *)
(*                                                                         *)
(* The coordinator hands its events to the CoordinatorEvents singleton     *)
(* (src/dashboard/coordinator-events.ts).  The dashboard server            *)
(* (src/dashboard/dashboard-server.ts) listens on that singleton when it   *)
(* is loaded in the coordinator's process, watches the job directory       *)
(* (src/dashboard/file-watcher.ts) and serves its observers.  Spec is the  *)
(* coordinator alone; DashSpec is the coordinator with a dashboard server. *)
(***************************************************************************)
EXTENDS Integers, Sequences, FiniteSets, TLC

\* ------------------------------------------------------------------ bounds
\* Longest job list the oracle returns in the model, apart from ScenarioList.
MaxJobs == 3
\* Most jobs the oracle generates over one run, apart from ScenarioList.
MaxTotalJobs == 3
\* Length of the list of pairwise distinct jobs the oracle may return in the
\* first iteration (five jobs under maxWorkers = 2: batches of 2, 2 and 1).
ScenarioJobs == 5
\* CONFIG.maxIterations; the source sets 10, the model explores a smaller value.
maxIterations == 2
\* Jobs of one iteration of the simple runner.
LocalJobs == 3
LocalIds == 1..LocalJobs
\* The branch "main"; a job's branch is named by the job's id.
Mainline == 0
\* Requests of the dashboard client's fetchState in flight at once.
MaxFetching == 1
\* this.maxReconnectAttempts of the dashboard client.
maxReconnectAttempts == 10
\* CONFIG.maxWorkers of the EmergentBuilder that emits events.
maxWorkers == 2
\* Most jobs the oracle generates over one run when the events are observed.
EventJobs == 2
\* Most jobs the oracle generates over one run beside a dashboard server.
DashJobs == 1
\* Most jobs the oracle generates over one run of the CLI-driven class.
CliJobs == 1
\* Most jobs the oracle generates over one run while another process changes
\* the job directory.
ExtJobs == 2
\* Most jobs the oracle generates over one run when the credentials vary.
StartupJobs == 1
\* Most jobs the oracle generates over one run while a dashboard server in
\* another process reads the job directory call by call.
SnapJobs == 1
\* Observer connections and broadcasts of the dashboard server taken alone.
MaxFanConns == 2
MaxBroadcasts == 2
\* Most path segments of a request URL.
MaxSegs == 3
\* Most tokens of an oracle answer.
MaxText == 6
\* Most files of one bucket when the dashboard server lists it.
MaxFiles == 4
\* Number of observer connections the dashboard server accepts in the model.
MaxConns == 1
\* Jobs of the oracle's MaxTotalJobs that are spent before a run with observer
\* connections starts.
ConnSpent == 2

\* The credentials the constructor requires.
RequiredEnv == {"SPRITE_TOKEN", "ANTHROPIC_API_KEY"}

\* Job ids: n stands for the id `job-00n`.
JobIds == 1..(IF ScenarioJobs > MaxTotalJobs THEN ScenarioJobs ELSE MaxTotalJobs)

Buckets == {"pending", "in-progress", "completed", "failed"}

\* Mutant of WorkerSteps: the branch is committed and not pushed.
WorkerSteps_NoPush == <<"clone", "branch", "gather", "oracle", "apply", "commit">>

\* The stretch of spawnWorker's try block a worker is waiting in, in order.
WorkerSteps == <<"clone", "branch", "gather", "oracle", "apply", "commit", "push">>

\* Positions of a job list.
Slots == 1..(IF ScenarioJobs > MaxJobs THEN ScenarioJobs ELSE MaxJobs)

VARIABLES
  pc,                \* where run() is suspended
  coordinatorSprite, \* "null" | "alive" | "deleted"
  coordinatorDeletes, \* number of coordinatorSprite.delete() calls
  hasCheckpoint,     \* typeof coordinatorSprite.checkpoint === 'function'
  variant,           \* "api" | "cli": which EmergentBuilder class of the source runs;
                     \* "simple": the simple runner's runAnalysis
  external,          \* another process changes the job directory during the run
  iteration,         \* this.iteration
  results,           \* this.results
  continueLoop,      \* run()'s continueLoop
  runResult,         \* "running" | "returned" | "threw": how run() ended;
                     \* "aborted": the constructor threw and run() was not called
  thrown,            \* an exception is propagating out of run()'s try block
  analysis,          \* runAnalysis in this iteration: "none" | "returned" | "threw"
  jobs,              \* the job list of this iteration (ids, in list order)
  written,           \* number of records written by writeJobFiles in this iteration
  generated,         \* number of jobs the oracle has generated in this run
  bucket,            \* the job directory: bucket name -> set of job ids
  created,           \* every job id ever written by writeJobFiles
  remote,            \* the branches the workers have pushed to the shared remote
  batchStart,        \* runWorkers' loop index i (0-based)
  branches,          \* runWorkers' branches
  failed,            \* runWorkers' failed
  wpc,               \* per job of the list: where its spawnWorker is suspended
  wok,               \* per job: the value spawnWorker is about to return
  wsprite,           \* per job: its worker sprite, "none" | "alive" | "deleted"
  wdeletes,          \* per job: number of worker.delete() calls
  finishOrder,       \* list positions of the jobs that completed, in completion order
  workerSprites,     \* number of worker sprites created and not yet deleted
  mergeIdx,          \* mergeBranches: index of the branch being merged
  merged,            \* branches merged into the mainline by this mergeBranches call
  attempts,          \* branches whose `git merge` call was made, in call order
  fetches,           \* number of `git fetch --all` calls of this mergeBranches call
  pushes,            \* number of `git push` calls of this mergeBranches call
  mergeInProgress,   \* the coordinator's working tree is in the middle of a merge
  mergeCalls,        \* number of mergeBranches calls in this iteration
  productState,      \* "Total iterations: N" of PRODUCT_STATE.md; 0: no such file
  dashboard,         \* "absent" | "same-process" | "other-process"
  emitted,           \* events the CoordinatorEvents singleton has emitted, in order
  dashState,         \* DashboardServer.currentState
  conn,              \* per observer connection: "none" | "open" | "closing" | "closed"
  received,          \* per observer connection: the messages sent on its open socket
  watchQueue,        \* file-watcher events chokidar has not yet delivered, in order
  reqUrl,            \* serveStatic: req.url as its path segments; <<>> is '/'
  response,          \* serveStatic: the status sent and the file path read
  output,            \* runAnalysis: the text of the oracle's answer, as tokens
  parsed,            \* runAnalysis: whether it returned, and the job list it returned
  dirFiles,          \* readJobFiles: the files of the bucket, in readdirSync order
  listed,            \* readJobFiles: whether it returned, and the list it returned
  env,               \* process.env: the credentials that are set
  fan,               \* the dashboard server's clients set (in insertion order), each
                     \* socket's state and messages, the broadcasts made so far and
                     \* the sockets whose send threw in the last one
  client,            \* DashboardClient: its socket, isConnected, fallbackMode,
                     \* reconnectAttempts, whether a reconnect timer is pending and
                     \* whether the last tick of the poll interval fetched the
                     \* state, the requests in flight and the status shown
  pushUp,            \* the dashboard server's WebSocket port accepts connections
  local,             \* the simple runner: where runIteration is, the job files,
                     \* the working copy (branch checked out, uncommitted changes),
                     \* the branches created and the commits made
  scan               \* updateStateFromFiles in a process of its own: the call it
                     \* is at (0: not running), the event in hand, what it has read

vars == <<pc, coordinatorSprite, coordinatorDeletes, hasCheckpoint, variant, external,
          remote, iteration,
          results, continueLoop, runResult, thrown, analysis, jobs, written,
          generated, bucket, created, batchStart, branches, failed, wpc, wok, wsprite,
          wdeletes, finishOrder, workerSprites, mergeIdx, merged, attempts, fetches, pushes,
          mergeInProgress, mergeCalls, productState, dashboard, emitted, dashState,
          conn, received, watchQueue, reqUrl, response, output, parsed, dirFiles,
          listed, env, scan, fan, client, pushUp, local>>

ctlVars == <<pc, coordinatorSprite, coordinatorDeletes, runResult, thrown>>
iterVars == <<iteration, results, continueLoop, analysis, jobs, written, generated,
             mergeCalls>>
workerVars == <<wpc, wok, wsprite, wdeletes, finishOrder>>
batchVars == <<batchStart, branches, failed>>
mergeVars == <<mergeIdx, merged, attempts, fetches, pushes, mergeInProgress>>
storeVars == <<bucket, created, remote>>
httpVars == <<reqUrl, response>>
textVars == <<output, parsed>>
listVars == <<dirFiles, listed>>
\* What no step of the coordinator, of the file watcher or of an observer
\* connection changes.
clientVars == <<client, pushUp>>
envVars == <<hasCheckpoint, variant, external, httpVars, textVars, listVars, env,
            scan, fan, clientVars, local>>
\* What the synchronous code of the coordinator and of the dashboard server
\* reads and writes besides the job directory.
obsVars == <<emitted, dashState, received, watchQueue>>
dashCtl == <<productState, dashboard, conn>>
dashVars == <<dashCtl, obsVars>>

\* ------------------------------------------------------------- the oracle
\* Job ids are opaque names, so a list names a job not seen before by the
\* least id not yet used; an id may repeat inside a list and across
\* iterations.
LeastUnused(used) == CHOOSE x \in JobIds : x \notin used /\ \A y \in JobIds \ used : x <= y

RECURSIVE NamesInOrder(_, _, _)
NamesInOrder(list, k, used) ==
  \/ k > Len(list)
  \/ /\ list[k] \in used \/ (used # JobIds /\ list[k] = LeastUnused(used))
     /\ NamesInOrder(list, k + 1, used \cup {list[k]})

ScenarioList == [k \in 1..ScenarioJobs |-> k]

\* Every job list the oracle's text can parse to, when `used` are the ids of
\* earlier iterations and `count` jobs were generated so far.
JobLists(used, count) ==
  {l \in UNION {[1..n -> JobIds] : n \in 0..MaxJobs} :
      Len(l) + count <= MaxTotalJobs /\ NamesInOrder(l, 1, used)}
    \cup (IF count = 0 THEN {ScenarioList} ELSE {})

\* What anthropic.messages.create and the parse of its text can come to:
\* the call rejects, the text holds no [...] substring, JSON.parse throws,
\* or JSON.parse yields a job list.
OracleOutcomes(used, count) ==
  {[kind |-> k, list |-> <<>>] : k \in {"apiError", "noArray", "badJson"}}
    \cup {[kind |-> "array", list |-> l] : l \in JobLists(used, count)}

\* The value runAnalysis returns once the oracle call has settled.
ParseJobs(out) == IF out.kind = "array" THEN out.list ELSE <<>>

\* ------------------------------------------------------------ job store
\* fs.writeFileSync(pending/<id>.json): creates or overwrites the record.
WriteRecord(b, id) == [b EXCEPT !["pending"] = @ \cup {id}]

\* if (fs.existsSync(from/<id>.json)) fs.renameSync(from/..., to/...)
Transition(b, id, from, to) ==
  IF id \in b[from]
  THEN [b EXCEPT ![from] = @ \ {id}, ![to] = @ \cup {id}]
  ELSE b

\* ------------------------------------------------------ dashboard server
Conns == 1..MaxConns

\* What one stretch of synchronous code reads and writes: the job directory,
\* the events emitted, DashboardServer.currentState, the messages sent to the
\* observers and the file-watcher events not yet delivered; enoent collects
\* the list positions whose renameSync threw in this stretch.
World ==
  [b |-> bucket, log |-> emitted, ds |-> dashState, rx |-> received, wq |-> watchQueue,
   enoent |-> {}]

SetObs(st) ==
  /\ emitted' = st.log
  /\ dashState' = st.ds
  /\ received' = st.rx
  /\ watchQueue' = st.wq

SetWorld(st) ==
  /\ bucket' = st.b
  /\ SetObs(st)

\* countJobFiles(status)
CountJobFiles(b, status) == Cardinality(b[status])

\* The ids of a set as a list in ascending order.
RECURSIVE SortIds(_)
SortIds(S) ==
  IF S = {}
  THEN <<>>
  ELSE LET m == CHOOSE x \in S : \A y \in S : x <= y
       IN  <<m>> \o SortIds(S \ {m})

\* readJobFiles(status): the records of the bucket, sorted (by id among jobs
\* of one priority).
ReadJobFiles(b, status) == SortIds(b[status])

\* Mutant of Broadcast: the message is sent twice to every open client.
Broadcast_Twice(st, msg) ==
  [st EXCEPT !.rx = [c \in Conns |->
                       IF conn[c] = "open" THEN st.rx[c] \o <<msg, msg>> ELSE st.rx[c]]]

\* DashboardServer.broadcast: the message is sent to every client whose
\* socket is open.
Broadcast(st, msg) ==
  [st EXCEPT !.rx = [c \in Conns |->
                       IF conn[c] = "open" THEN Append(st.rx[c], msg) ELSE st.rx[c]]]

\* DashboardServer.updateStateFromFiles: counts and lists are read from the
\* job directory, the iteration number from PRODUCT_STATE.md when it exists.
UpdateStateFromFiles(st) ==
  [st EXCEPT !.ds = [iteration |-> IF productState > 0 THEN productState
                                   ELSE st.ds.iteration,
                     jobs |-> [k \in Buckets |-> CountJobFiles(st.b, k)],
                     jobsList |-> [k \in Buckets |-> ReadJobFiles(st.b, k)],
                     coordinatorConnected |-> st.ds.coordinatorConnected]]

\* The dashboard server's listener on '*'.
OnCoordinatorEvent(st, ev) ==
  LET s1 == [st EXCEPT !.ds.coordinatorConnected = TRUE]
      s2 == IF ev.type = "iteration:start"
            THEN [s1 EXCEPT !.ds.iteration = ev.iteration]
            ELSE s1
      s3 == IF ev.type \in {"job:created", "job:status"}
            THEN UpdateStateFromFiles(s2)
            ELSE s2
  IN  Broadcast(s3, ev)

\* ---------------------------------------------------------- static files
\* const PUBLIC_DIR = './dashboard/public', as its path segments.
PUBLIC_DIR == <<".", "dashboard", "public">>

\* The path segments a request URL is made of in the model; 'public-evil' is
\* a directory beside the public directory whose name begins with its name.
UrlSegments == {"..", ".", "dashboard", "public", "public-evil", "index.html"}

Urls == UNION {[1..n -> UrlSegments] : n \in 0..MaxSegs}

\* path.normalize on a relative path: '.' segments are dropped, '..' removes
\* the segment before it, or stays when there is none to remove.
RECURSIVE NormalizeFrom(_, _, _)
NormalizeFrom(p, k, acc) ==
  IF k > Len(p) THEN acc
  ELSE IF p[k] = "." THEN NormalizeFrom(p, k + 1, acc)
  ELSE IF p[k] = ".." /\ Len(acc) > 0 /\ acc[Len(acc)] # ".."
       THEN NormalizeFrom(p, k + 1, SubSeq(acc, 1, Len(acc) - 1))
  ELSE NormalizeFrom(p, k + 1, Append(acc, p[k]))

Normalize(p) == NormalizeFrom(p, 1, <<>>)

\* path.join(a, b): the segments are joined and the result is normalized.
Join(a, b) == Normalize(a \o b)

\* String.prototype.startsWith between two segments.
SegmentStartsWith(seg, prefix) ==
  seg = prefix \/ (prefix = "public" /\ seg = "public-evil")

\* filePath.startsWith(prefix), both given as path segments: the segments
\* before the last one of the prefix are equal and the last one is a string
\* prefix of its counterpart.
StartsWith(p, prefix) ==
  /\ Len(p) >= Len(prefix)
  /\ \A k \in 1..(Len(prefix) - 1) : p[k] = prefix[k]
  /\ Len(prefix) > 0 => SegmentStartsWith(p[Len(prefix)], prefix[Len(prefix)])

\* if (!filePath.startsWith(PUBLIC_DIR))
Forbidden(filePath) == ~StartsWith(filePath, PUBLIC_DIR)

\* serveStatic: '/' stands for '/index.html'; the path is joined to
\* PUBLIC_DIR; a path that does not start with PUBLIC_DIR is answered 403 and
\* not read; otherwise the file is read and answered 200, or 404 when
\* readFile fails.
ServeStatic(url, readable) ==
  LET filePath == Join(PUBLIC_DIR, IF url = <<>> THEN <<"index.html">> ELSE url)
  IN  IF Forbidden(filePath)
      THEN [status |-> 403, read |-> <<>>]
      ELSE [status |-> IF readable THEN 200 ELSE 404, read |-> filePath]

\* ------------------------------------------------------------ event layer
\* private enabled = true; nothing calls setEnabled.
enabled == TRUE

\* The channels of the singleton that have a listener: the dashboard server
\* registers one, on '*', in the process it is loaded in.
Listeners == IF dashboard = "same-process" THEN {"*"} ELSE {}

\* CoordinatorEvents.emitEvent: nothing happens when the layer is disabled or
\* nobody listens; otherwise the event is built and emitted on its own
\* channel and then on '*'.  Field n is the event's position among the
\* emitted events and stands for the identity of the event object; a field
\* the event type does not carry is "" or 0.
EmitEvent(st, type, job, status, it) ==
  IF ~enabled \/ ("*" \notin Listeners /\ type \notin Listeners)
  THEN st
  ELSE LET ev == [type |-> type, job |-> job, status |-> status, iteration |-> it,
                  n |-> Len(st.log) + 1]
           s1 == [st EXCEPT !.log = Append(st.log, ev)]
       IN  IF "*" \in Listeners THEN OnCoordinatorEvent(s1, ev) ELSE s1

\* ------------------------------------------------------------ file watcher
\* chokidar notices a change of a watched path; it delivers its events in
\* the order of the changes.
Watch(st, kind, status, id) ==
  IF dashboard = "absent"
  THEN st
  ELSE [st EXCEPT !.wq = Append(st.wq, [kind |-> kind, status |-> status, job |-> id])]

\* ------------------------------------------------- coordinator on the store
\* writeJobFiles, one job: the record is written, then job:created is emitted.
CreateAndNotify(st, id) ==
  LET kind == IF id \in st.b["pending"] THEN "change" ELSE "add"
      s1 == Watch([st EXCEPT !.b = WriteRecord(st.b, id)], kind, "pending", id)
  IN  EmitEvent(s1, "job:created", id, "", 0)

\* Mutant of TransitionAndNotify: the record is put into the target bucket
\* and the event emitted whether or not the record is in the source bucket.
TransitionAndNotify_Unchecked(st, id, from, to) ==
  LET kind == IF id \in st.b[to] THEN "change" ELSE "add"
      s1 == [st EXCEPT !.b = [st.b EXCEPT ![from] = @ \ {id}, ![to] = @ \cup {id}]]
      s2 == Watch(Watch(s1, "unlink", from, id), kind, to, id)
  IN  EmitEvent(s2, "job:status", id, to, 0)

\* Mutant of TransitionAndNotify: the event is emitted before the record is
\* moved.
TransitionAndNotify_EmitFirst(st, id, from, to) ==
  IF id \in st.b[from]
  THEN LET kind == IF id \in st.b[to] THEN "change" ELSE "add"
           s1 == EmitEvent(st, "job:status", id, to, 0)
           s2 == [s1 EXCEPT !.b = Transition(s1.b, id, from, to)]
       IN  Watch(Watch(s2, "unlink", from, id), kind, to, id)
  ELSE st

\* Mutant of TransitionAndNotify: the record is moved and no event emitted.
TransitionAndNotify_Silent(st, id, from, to) ==
  IF id \in st.b[from]
  THEN LET kind == IF id \in st.b[to] THEN "change" ELSE "add"
           s1 == [st EXCEPT !.b = Transition(st.b, id, from, to)]
       IN  Watch(Watch(s1, "unlink", from, id), kind, to, id)
  ELSE st

\* if (fs.existsSync(from)) { fs.renameSync(from, to); emitJobStatus(id, to) }
TransitionAndNotify(st, id, from, to) ==
  IF id \in st.b[from]
  THEN LET kind == IF id \in st.b[to] THEN "change" ELSE "add"
           s1 == [st EXCEPT !.b = Transition(st.b, id, from, to)]
           s2 == Watch(Watch(s1, "unlink", from, id), kind, to, id)
       IN  EmitEvent(s2, "job:status", id, to, 0)
  ELSE st

\* fs.existsSync(from) saw the record of position w, another process took it
\* away before fs.renameSync(from, to) ran, and renameSync throws ENOENT.
RacedRename(st, w, id, from) ==
  Watch([st EXCEPT !.b[from] = @ \ {id}, !.enoent = @ \cup {w}], "unlink", from, id)

\* Mutant of WriteAll: the records are written from the end of the list.
RECURSIVE WriteAll_Reversed(_, _, _)
WriteAll_Reversed(st, list, k) ==
  IF k > Len(list) THEN st
  ELSE CreateAndNotify(WriteAll_Reversed(st, list, k + 1), list[k])

RECURSIVE WriteAll(_, _, _)
WriteAll(st, list, k) ==
  IF k > Len(list) THEN st ELSE WriteAll(CreateAndNotify(st, list[k]), list, k + 1)

\* `emergent/${this.iteration}/${job.id}`
BranchName(it, id) == <<"emergent", it, id>>

\* ------------------------------------------------------------ batches
\* Mutant of BatchOf: the slice starts at the head of the list
\* (jobs.slice(0, i + CONFIG.maxWorkers)).
BatchOf_FromStart(list, i) == {w \in 1..Len(list) : w <= i + maxWorkers}

\* Mutant of BatchOf: the slice has no upper end (jobs.slice(i)).
BatchOf_Unbounded(list, i) == {w \in 1..Len(list) : i < w}

\* jobs.slice(i, i + CONFIG.maxWorkers), as 1-based positions of the list.
BatchOf(list, i) == {w \in 1..Len(list) : i < w /\ w <= i + maxWorkers}

\* The synchronous start of batch.map(job => this.spawnWorker(job)): each
\* spawnWorker runs up to its first await (createSprite), in list order, or
\* throws at its renameSync when its position is one of `raced` and its record
\* was in pending.
RECURSIVE StartTransitions(_, _, _, _, _)
StartTransitions(st, list, w, batch, raced) ==
  IF w > Len(list)
  THEN st
  ELSE StartTransitions(IF w \notin batch
                        THEN st
                        ELSE IF w \in raced /\ list[w] \in st.b["pending"]
                        THEN RacedRename(st, w, list[w], "pending")
                        ELSE TransitionAndNotify(st, list[w], "pending", "in-progress"),
                        list, w + 1, batch, raced)

\* A spawnWorker whose renameSync threw has rejected (wpc "enoent"); the
\* others wait for their sprite.
StartBatch(i) ==
  \E raced \in SUBSET BatchOf(jobs, i) :
    /\ ~external => raced = {}
    /\ LET st == StartTransitions(World, jobs, 1, BatchOf(jobs, i), raced)
       IN  /\ st.enoent = raced
           /\ SetWorld(st)
    /\ wpc' = [w \in Slots |-> IF w \in raced THEN "enoent"
                                ELSE IF w \in BatchOf(jobs, i) THEN "create"
                                ELSE wpc[w]]
    /\ UNCHANGED <<created, remote, wok, wsprite, wdeletes, finishOrder>>

\* The observer connections of the dashboard server taken alone.
FanConns == 1..MaxFanConns

\* private clients = new Set<WebSocket>(): nobody has connected.
NoFan ==
  [clients |-> <<>>,
   ready |-> [c \in FanConns |-> "none"],
   inbox |-> [c \in FanConns |-> <<>>],
   n |-> 0,
   threw |-> {}]

\* The simple runner has not started an iteration: the working copy is clean
\* and on the mainline.
NoLocalRun ==
  [pc |-> "off",
   n |-> 0,
   idx |-> 0,
   files |-> [k \in LocalIds |-> "none"],
   head |-> Mainline,
   dirty |-> {},
   created |-> <<>>,
   commits |-> <<>>,
   completedBranches |-> <<>>,
   failedCount |-> 0]

\* new DashboardClient(): connect() has created the socket and setupFallback
\* has started the poll interval.
NewClient ==
  [ws |-> "connecting",
   isConnected |-> FALSE,
   fallbackMode |-> FALSE,
   reconnectAttempts |-> 0,
   timer |-> FALSE,
   polled |-> FALSE,
   fetching |-> 0,
   status |-> "connecting"]

\* updateStateFromFiles is not running.
NoScan ==
  [pos |-> 0,
   ev |-> [type |-> "", job |-> 0, status |-> "", iteration |-> 0, n |-> 0],
   jobs |-> [k \in Buckets |-> 0],
   jobsList |-> [k \in Buckets |-> <<>>]]

\* ------------------------------------------------------------ run()
\* DashboardServer's constructor on an empty job directory.
InitialDashState ==
  [iteration |-> 0,
   jobs |-> [k \in Buckets |-> 0],
   jobsList |-> [k \in Buckets |-> <<>>],
   coordinatorConnected |-> FALSE]

\* The state after construction, but for the dashboard server's presence and
\* the oracle's budget.
CoordinatorInit ==
  /\ pc = "idle"
  /\ coordinatorSprite = "null"
  /\ coordinatorDeletes = 0
  /\ hasCheckpoint \in BOOLEAN
  /\ iteration = 0
  /\ results = <<>>
  /\ continueLoop = TRUE
  /\ runResult = "running"
  /\ thrown = FALSE
  /\ analysis = "none"
  /\ jobs = <<>>
  /\ written = 0
  /\ bucket = [b \in Buckets |-> {}]
  /\ created = {}
  /\ remote = {}
  /\ batchStart = 0
  /\ branches = <<>>
  /\ failed = 0
  /\ wpc = [w \in Slots |-> "idle"]
  /\ wok = [w \in Slots |-> FALSE]
  /\ wsprite = [w \in Slots |-> "none"]
  /\ wdeletes = [w \in Slots |-> 0]
  /\ finishOrder = <<>>
  /\ workerSprites = 0
  /\ mergeIdx = 0
  /\ merged = <<>>
  /\ attempts = <<>>
  /\ fetches = 0
  /\ pushes = 0
  /\ mergeInProgress = FALSE
  /\ mergeCalls = 0
  /\ productState = 0
  /\ emitted = <<>>
  /\ dashState = InitialDashState
  /\ conn = [c \in Conns |-> "none"]
  /\ received = [c \in Conns |-> <<>>]
  /\ watchQueue = <<>>
  /\ scan = NoScan
  /\ fan = NoFan
  /\ client = NewClient
  /\ pushUp = TRUE
  /\ local = NoLocalRun

\* No static file was asked for.
NoRequest ==
  /\ reqUrl = <<>>
  /\ response = [status |-> 0, read |-> <<>>]

\* No oracle text is being parsed on its own.
NoAnalysisText ==
  /\ output = <<>>
  /\ parsed = [done |-> FALSE, jobs |-> <<>>]

\* No bucket is being listed on its own.
NoListing ==
  /\ dirFiles = <<>>
  /\ listed = [done |-> FALSE, jobs |-> <<>>, answered |-> FALSE, body |-> <<>>]

\* The coordinator alone: no dashboard server runs.
Init ==
  /\ CoordinatorInit
  /\ env = RequiredEnv
  /\ NoRequest
  /\ NoAnalysisText
  /\ NoListing
  /\ variant = "api"
  /\ external = FALSE
  /\ generated = 0
  /\ dashboard = "absent"

\* The coordinator alone while another process changes the job directory;
\* the oracle generates at most ExtJobs jobs.
ExtInit ==
  /\ CoordinatorInit
  /\ env = RequiredEnv
  /\ NoRequest
  /\ NoAnalysisText
  /\ NoListing
  /\ variant = "api"
  /\ external = TRUE
  /\ generated = MaxTotalJobs - ExtJobs
  /\ dashboard = "absent"

\* The CLI-driven EmergentBuilder (src/coordinator.ts 38-468) alone.  Its
\* run, runIteration, runWorkers, spawnWorker and mergeBranches have the
\* control flow of the API-driven class; it emits no events, and its oracle
\* generates at most CliJobs jobs, which fit into one batch of its maxWorkers.
CliInit ==
  /\ CoordinatorInit
  /\ env = RequiredEnv
  /\ NoRequest
  /\ NoAnalysisText
  /\ NoListing
  /\ variant = "cli"
  /\ external = FALSE
  /\ generated = MaxTotalJobs - CliJobs
  /\ dashboard = "absent"

\* The coordinator beside a dashboard server that was started on the empty
\* job directory, in the coordinator's process or in a process of its own;
\* the oracle generates at most EventJobs jobs.
EventInit ==
  /\ CoordinatorInit
  /\ env = RequiredEnv
  /\ NoRequest
  /\ NoAnalysisText
  /\ NoListing
  /\ variant = "api"
  /\ external = FALSE
  /\ generated = MaxTotalJobs - EventJobs
  /\ dashboard \in {"same-process", "other-process"}

\* The same with a provider that has no checkpoint function and an oracle
\* that generates at most DashJobs jobs.
DashInit ==
  /\ CoordinatorInit
  /\ env = RequiredEnv
  /\ NoRequest
  /\ NoAnalysisText
  /\ NoListing
  /\ variant = "api"
  /\ external = FALSE
  /\ ~hasCheckpoint
  /\ generated = MaxTotalJobs - DashJobs
  /\ dashboard \in {"same-process", "other-process"}

\* The same with observer connections: the oracle has MaxTotalJobs - ConnSpent
\* jobs left.
ConnInit ==
  /\ CoordinatorInit
  /\ env = RequiredEnv
  /\ NoRequest
  /\ NoAnalysisText
  /\ NoListing
  /\ variant = "api"
  /\ external = FALSE
  /\ ~hasCheckpoint
  /\ generated = ConnSpent
  /\ dashboard \in {"same-process", "other-process"}

\* Mutant of RunFinally: the coordinator sprite is deleted after the loop
\* only, not when an error leaves the try block.
RunFinally_SkipOnError(isError) ==
  IF coordinatorSprite # "null" /\ ~isError
  THEN /\ coordinatorSprite' = "deleted"
       /\ coordinatorDeletes' = coordinatorDeletes + 1
       /\ thrown' = isError
       /\ pc' = "cleanup"
       /\ UNCHANGED runResult
  ELSE /\ pc' = "done"
       /\ runResult' = IF isError THEN "threw" ELSE "returned"
       /\ thrown' = isError
       /\ UNCHANGED <<coordinatorSprite, coordinatorDeletes>>

\* run()'s catch/finally: the error (if any) is rethrown after the finally
\* block, which deletes the coordinator sprite when the field is set.
RunFinally(isError) ==
  IF coordinatorSprite # "null"
  THEN /\ coordinatorSprite' = "deleted"
       /\ coordinatorDeletes' = coordinatorDeletes + 1
       /\ thrown' = isError
       /\ pc' = "cleanup"
       /\ UNCHANGED runResult
  ELSE /\ pc' = "done"
       /\ runResult' = IF isError THEN "threw" ELSE "returned"
       /\ thrown' = isError
       /\ UNCHANGED <<coordinatorSprite, coordinatorDeletes>>

\* runIteration() up to its first await: iteration++, iteration:start is
\* emitted and the checkpoint is called.
BeginIteration ==
  /\ iteration' = iteration + 1
  /\ analysis' = "none"
  /\ jobs' = <<>>
  /\ written' = 0
  /\ mergeCalls' = 0
  /\ pc' = "pre_checkpoint"
  /\ batchStart' = 0
  /\ branches' = <<>>
  /\ failed' = 0
  /\ wpc' = [w \in Slots |-> "idle"]
  /\ wok' = [w \in Slots |-> FALSE]
  /\ wsprite' = [w \in Slots |-> "none"]
  /\ wdeletes' = [w \in Slots |-> 0]
  /\ finishOrder' = <<>>
  /\ mergeIdx' = 0
  /\ merged' = <<>>
  /\ attempts' = <<>>
  /\ fetches' = 0
  /\ pushes' = 0
  /\ mergeInProgress' = FALSE
  /\ SetObs(EmitEvent(World, "iteration:start", 0, "", iteration + 1))
  /\ UNCHANGED <<results, continueLoop, generated>>

\* main() constructs the EmergentBuilder and, when it got one, calls run().
\* The constructor goes on to run() when both credentials are set and throws
\* otherwise, so that main() rejects.
Construct_Unchecked ==
  /\ pc' = "init_create"
  /\ UNCHANGED runResult

Construct ==
  IF RequiredEnv \subseteq env
  THEN /\ pc' = "init_create"
       /\ UNCHANGED runResult
  ELSE /\ pc' = "done"
       /\ runResult' = "aborted"

\* main() runs: the constructor, then run() and initialize(), which creates
\* the directories and asks for the coordinator sprite.
Start ==
  /\ pc = "idle"
  /\ Construct
  /\ UNCHANGED <<coordinatorSprite, coordinatorDeletes, thrown,
                 envVars, dashVars, workerSprites, iterVars, storeVars, batchVars, workerVars, mergeVars>>

\* client.createSprite(coordinatorName) settles.
InitCreateSprite ==
  /\ pc = "init_create"
  /\ \E ok \in BOOLEAN :
       IF ok
       THEN /\ coordinatorSprite' = "alive"
            /\ pc' = "init_clone"
            /\ UNCHANGED <<coordinatorDeletes, runResult, thrown>>
       ELSE RunFinally(TRUE)
  /\ UNCHANGED <<envVars, dashVars, workerSprites, iterVars, storeVars, batchVars, workerVars, mergeVars>>

\* The git clone into the coordinator settles; on success initialize()
\* returns and the loop calls runIteration().
InitClone ==
  /\ pc = "init_clone"
  /\ \E ok \in BOOLEAN :
       IF ok
       THEN /\ BeginIteration
            /\ UNCHANGED <<coordinatorSprite, coordinatorDeletes, runResult, thrown>>
       ELSE /\ RunFinally(TRUE)
            /\ UNCHANGED <<iterVars, batchVars, workerVars, mergeVars, obsVars>>
  /\ UNCHANGED <<envVars, dashCtl, workerSprites, storeVars>>

\* checkpoint(name): how the call can settle.  The API-driven class calls
\* coordinatorSprite.checkpoint only when that is a function and otherwise
\* returns without doing anything; the CLI-driven class calls it in any case,
\* which throws a TypeError when it is not a function.
CheckpointOutcomes ==
  IF hasCheckpoint THEN BOOLEAN
  ELSE IF variant = "cli" THEN {FALSE}
  ELSE {TRUE}

\* The pre-iteration checkpoint settles (it is skipped when the provider has
\* no checkpoint function); runAnalysis then reads the context documents
\* (readFileSync of the coordinator prompt throws when it is unreadable) and
\* asks the coordinator sprite for the file listing.
PreCheckpoint ==
  /\ pc = "pre_checkpoint"
  /\ \E ok \in CheckpointOutcomes, docsOk \in BOOLEAN :
       /\ IF ok /\ docsOk
          THEN /\ pc' = "analysis_snapshot"
               /\ UNCHANGED <<coordinatorSprite, coordinatorDeletes, runResult, thrown,
                              analysis>>
          ELSE /\ RunFinally(TRUE)
               /\ analysis' = IF ok THEN "threw" ELSE analysis
  /\ UNCHANGED <<envVars, dashVars, workerSprites, iteration, results, continueLoop, jobs,
                 written, generated, mergeCalls, storeVars, batchVars, workerVars, mergeVars>>

\* readCodebaseFromSprite(): the `find` call settles (it is outside any try;
\* a failing `cat` of one file is caught and skipped); on success the oracle
\* is called.
AnalysisSnapshot ==
  /\ pc = "analysis_snapshot"
  /\ \E ok \in BOOLEAN :
       IF ok
       THEN /\ pc' = "analysis_oracle"
            /\ UNCHANGED <<coordinatorSprite, coordinatorDeletes, runResult, thrown,
                           analysis>>
       ELSE /\ RunFinally(TRUE)
            /\ analysis' = "threw"
  /\ UNCHANGED <<envVars, dashVars, workerSprites, iteration, results, continueLoop, jobs,
                 written, generated, mergeCalls, storeVars, batchVars, workerVars, mergeVars>>

\* Mutant of NoJobs: the empty list is not taken as the stopping signal.
NoJobs_Ignored(list) == FALSE

\* if (jobs.length === 0) return false
NoJobs(list) == Len(list) = 0

\* The oracle call settles and runAnalysis returns; runIteration returns
\* false on an empty list and otherwise calls writeJobFiles, which writes the
\* records and emits job:created for each, and then runWorkers.
AnalysisOracle ==
  /\ pc = "analysis_oracle"
  /\ \E out \in OracleOutcomes(created, generated) :
       /\ jobs' = ParseJobs(out)
       /\ generated' = generated + Len(jobs')
       /\ analysis' = "returned"
       /\ IF NoJobs(jobs')
          THEN /\ continueLoop' = FALSE
               /\ pc' = "pause"
               /\ UNCHANGED <<written, storeVars, obsVars>>
          ELSE /\ SetWorld(WriteAll(World, jobs', 1))
               /\ created' = created \cup {jobs'[k] : k \in 1..Len(jobs')}
               /\ written' = Len(jobs')
               /\ pc' = "written"
               /\ UNCHANGED <<continueLoop, remote>>
  /\ UNCHANGED <<coordinatorSprite, coordinatorDeletes, runResult, thrown,
                 envVars, dashCtl, workerSprites, iteration, results, mergeCalls, batchVars,
                 workerVars, mergeVars>>

\* runWorkers() starts: the first batch is sliced and its workers started.
StartWorkers ==
  /\ pc = "written"
  /\ batchStart' = 0
  /\ branches' = <<>>
  /\ failed' = 0
  /\ StartBatch(0)
  /\ pc' = "workers"
  /\ UNCHANGED <<coordinatorSprite, coordinatorDeletes, runResult, thrown,
                 envVars, dashCtl, workerSprites, iterVars, mergeVars>>

\* ------------------------------------------------------------ spawnWorker
\* Mutant of WorkerFinally: the worker sprite is not deleted.
WorkerFinally_NoDelete(w) ==
  /\ wpc' = [wpc EXCEPT ![w] = "delete"]
  /\ UNCHANGED <<wsprite, wdeletes, workerSprites>>

\* The finally block of spawnWorker: worker.delete() is called.
WorkerFinally(w) ==
  /\ wsprite' = [wsprite EXCEPT ![w] = "deleted"]
  /\ wdeletes' = [wdeletes EXCEPT ![w] = @ + 1]
  /\ workerSprites' = workerSprites - 1
  /\ wpc' = [wpc EXCEPT ![w] = "delete"]

\* The finally block after an error thrown inside the catch block:
\* worker.delete() is called and spawnWorker will reject.
WorkerFinallyRethrow(w) ==
  /\ wsprite' = [wsprite EXCEPT ![w] = "deleted"]
  /\ wdeletes' = [wdeletes EXCEPT ![w] = @ + 1]
  /\ workerSprites' = workerSprites - 1
  /\ wpc' = [wpc EXCEPT ![w] = "delete_rethrow"]

\* client.createSprite(worker name) settles.  The call is made before the
\* try block: when it rejects, spawnWorker rejects.
WorkerCreate(w) ==
  /\ wpc[w] = "create"
  /\ \E ok \in BOOLEAN :
       IF ok
       THEN /\ wsprite' = [wsprite EXCEPT ![w] = "alive"]
            /\ workerSprites' = workerSprites + 1
            /\ wpc' = [wpc EXCEPT ![w] = WorkerSteps[1]]
       ELSE /\ wpc' = [wpc EXCEPT ![w] = "rejected"]
            /\ UNCHANGED <<wsprite, workerSprites>>
  /\ UNCHANGED <<ctlVars, envVars, dashVars, iterVars, storeVars, batchVars, wok,
                 wdeletes, finishOrder, mergeVars>>

StepIndex(name) == CHOOSE k \in 1..Len(WorkerSteps) : WorkerSteps[k] = name

\* One awaited call of the try block settles.  When it resolves the worker
\* goes on to the next call; after the push (which puts the branch on the
\* remote) it moves the record to completed and returns success.  When it
\* rejects, the catch block moves the record to failed and returns failure.
\* Either way the finally block follows.  When another process takes the
\* record away between existsSync and renameSync, the renameSync of the try
\* block throws into the catch block, which finds no record and returns
\* failure, and the renameSync of the catch block throws out of spawnWorker.
WorkerStep(w) ==
  /\ wpc[w] \in {WorkerSteps[k] : k \in 1..Len(WorkerSteps)}
  /\ \E ok \in BOOLEAN, raced \in BOOLEAN :
       /\ raced => /\ external
                   /\ jobs[w] \in bucket["in-progress"]
                   /\ ~(ok /\ StepIndex(wpc[w]) < Len(WorkerSteps))
       /\ IF ok /\ StepIndex(wpc[w]) < Len(WorkerSteps)
          THEN /\ wpc' = [wpc EXCEPT ![w] = WorkerSteps[StepIndex(wpc[w]) + 1]]
               /\ UNCHANGED <<bucket, remote, obsVars, wok, wsprite, wdeletes, finishOrder,
                              workerSprites>>
          ELSE IF raced
          THEN /\ SetWorld(RacedRename(World, w, jobs[w], "in-progress"))
               /\ remote' = IF ok /\ wpc[w] = "push"
                            THEN remote \cup {BranchName(iteration, jobs[w])}
                            ELSE remote
               /\ wok' = [wok EXCEPT ![w] = FALSE]
               /\ UNCHANGED finishOrder
               /\ IF ok THEN WorkerFinally(w) ELSE WorkerFinallyRethrow(w)
          ELSE /\ SetWorld(TransitionAndNotify(World, jobs[w], "in-progress",
                                               IF ok THEN "completed" ELSE "failed"))
               /\ remote' = IF ok /\ wpc[w] = "push"
                            THEN remote \cup {BranchName(iteration, jobs[w])}
                            ELSE remote
               /\ wok' = [wok EXCEPT ![w] = ok]
               /\ finishOrder' = IF ok THEN Append(finishOrder, w) ELSE finishOrder
               /\ WorkerFinally(w)
  /\ UNCHANGED <<ctlVars, envVars, dashCtl, iterVars, created, batchVars, mergeVars>>

\* worker.delete() settles: spawnWorker resolves with its result, or rejects
\* when the delete call rejected or an error is on its way out.
WorkerDelete(w) ==
  /\ wpc[w] \in {"delete", "delete_rethrow"}
  /\ \E ok \in BOOLEAN :
       wpc' = [wpc EXCEPT ![w] = IF ~ok THEN "rejected"
                                 ELSE IF wpc[w] = "delete" THEN "resolved"
                                 ELSE "enoent"]
  /\ UNCHANGED <<ctlVars, envVars, dashVars, workerSprites, iterVars, storeVars, batchVars, wok,
                 wsprite, wdeletes, finishOrder, mergeVars>>

\* ------------------------------------------------------------ runWorkers
\* Mutant of CollectBranches: the branches of a batch are collected in the
\* order in which their jobs completed.
CollectBranches_ByCompletion(acc, w, batch) ==
  LET done == SelectSeq(finishOrder, LAMBDA v : v \in batch)
  IN  acc \o [k \in 1..Len(done) |-> BranchName(iteration, jobs[done[k]])]

\* for (const result of results): Promise.all resolves with the results in
\* the order of the batch, whatever the order in which the promises resolved.
RECURSIVE CollectBranches(_, _, _)
CollectBranches(acc, w, batch) ==
  IF w > Len(jobs)
  THEN acc
  ELSE CollectBranches(IF w \in batch /\ wok[w]
                       THEN Append(acc, BranchName(iteration, jobs[w]))
                       ELSE acc,
                       w + 1, batch)

CountFailed(i) == Cardinality({w \in BatchOf(jobs, i) : ~wok[w]})

\* mergeBranches(branches) is called: it returns at once on an empty list and
\* otherwise calls git fetch --all.
BeginMerge(list) ==
  /\ mergeCalls' = mergeCalls + 1
  /\ merged' = <<>>
  /\ mergeIdx' = 0
  /\ attempts' = <<>>
  /\ pushes' = 0
  /\ mergeInProgress' = FALSE
  /\ fetches' = IF Len(list) = 0 THEN 0 ELSE 1
  /\ pc' = IF Len(list) = 0 THEN "merged" ELSE "merge_fetch"

\* Mutant of BatchSettled: the loop goes on when the first worker of the
\* batch has resolved (Promise.race).
BatchSettled_Any(i) == \E w \in BatchOf(jobs, i) : wpc[w] = "resolved"

\* await Promise.all(batch.map(...)) resumes with the results.
BatchSettled(i) == \A w \in BatchOf(jobs, i) : wpc[w] = "resolved"

\* Promise.all of the batch resolves: every spawnWorker of the batch has
\* resolved.  The results are collected and the next batch is started, or
\* runWorkers returns and mergeBranches is called.
BatchJoin ==
  /\ pc = "workers"
  /\ BatchSettled(batchStart)
  /\ branches' = CollectBranches(branches, 1, BatchOf(jobs, batchStart))
  /\ failed' = failed + CountFailed(batchStart)
  /\ batchStart' = batchStart + maxWorkers
  /\ IF batchStart' < Len(jobs)
     THEN /\ StartBatch(batchStart')
          /\ UNCHANGED <<pc, mergeVars, mergeCalls>>
     ELSE /\ BeginMerge(branches')
          /\ UNCHANGED <<storeVars, workerVars, obsVars>>
  /\ UNCHANGED <<coordinatorSprite, coordinatorDeletes, runResult, thrown,
                 envVars, dashCtl, workerSprites, iteration, results, continueLoop, analysis, jobs,
                 written, generated>>

\* Promise.all of the batch rejects: one spawnWorker of the batch rejected.
\* The error leaves runWorkers, runIteration and run()'s try block; the other
\* workers of the batch keep running.
BatchReject ==
  /\ pc = "workers"
  /\ \E w \in BatchOf(jobs, batchStart) : wpc[w] \in {"rejected", "enoent"}
  /\ RunFinally(TRUE)
  /\ UNCHANGED <<envVars, dashVars, workerSprites, iterVars, storeVars, batchVars, workerVars, mergeVars>>

\* ------------------------------------------------------------ mergeBranches
\* for (const branch of branches): after the attempt on branch mergeIdx the
\* loop calls git merge on the next branch, or is left and git push is called.
MergeAdvance ==
  IF mergeIdx < Len(branches)
  THEN /\ mergeIdx' = mergeIdx + 1
       /\ attempts' = Append(attempts, branches[mergeIdx + 1])
       /\ pc' = "merge_branch"
       /\ UNCHANGED pushes
  ELSE /\ pushes' = pushes + 1
       /\ pc' = "merge_push"
       /\ UNCHANGED <<mergeIdx, attempts>>

\* git fetch --all settles; on success git merge is called on the first
\* branch; a rejection is caught by the outer try and mergeBranches returns
\* false.
MergeFetch ==
  /\ pc = "merge_fetch"
  /\ \E ok \in BOOLEAN :
       IF ok
       THEN /\ mergeIdx' = 1
            /\ attempts' = Append(attempts, branches[1])
            /\ pc' = "merge_branch"
       ELSE /\ pc' = "merged"
            /\ UNCHANGED <<mergeIdx, attempts>>
  /\ UNCHANGED <<coordinatorSprite, coordinatorDeletes, runResult, thrown,
                 envVars, dashVars, workerSprites, iterVars, storeVars, batchVars, workerVars,
                 merged, fetches, pushes, mergeInProgress>>

\* How git merge origin/<branch> can settle: the branch is merged; the merge
\* stops on a conflict and leaves the working tree in the middle of the merge;
\* or the command fails before a merge is begun (the remote branch is missing,
\* the sprite call fails).
MergeOutcomes == {"merged", "conflict", "error"}

\* git merge origin/<branch> settles; on a rejection the inner catch calls
\* git merge --abort.
MergeBranch ==
  /\ pc = "merge_branch"
  /\ \E out \in MergeOutcomes :
       IF out = "merged"
       THEN /\ merged' = Append(merged, branches[mergeIdx])
            /\ MergeAdvance
            /\ UNCHANGED mergeInProgress
       ELSE /\ mergeInProgress' = (out = "conflict")
            /\ pc' = "merge_abort"
            /\ UNCHANGED <<merged, mergeIdx, attempts, pushes>>
  /\ UNCHANGED <<coordinatorSprite, coordinatorDeletes, runResult, thrown,
                 envVars, dashVars, workerSprites, iterVars, storeVars, batchVars, workerVars,
                 fetches>>

\* git merge --abort settles.  When it resolves the merge in progress is
\* gone and the loop goes on; a rejection leaves the inner catch block, is
\* caught by the outer try and mergeBranches returns false.
MergeAbort ==
  /\ pc = "merge_abort"
  /\ \E ok \in BOOLEAN :
       IF ok
       THEN /\ mergeInProgress' = FALSE
            /\ MergeAdvance
       ELSE /\ pc' = "merged"
            /\ UNCHANGED <<mergeIdx, attempts, pushes, mergeInProgress>>
  /\ UNCHANGED <<coordinatorSprite, coordinatorDeletes, runResult, thrown,
                 envVars, dashVars, workerSprites, iterVars, storeVars, batchVars, workerVars,
                 merged, fetches>>

\* git push settles; mergeBranches returns true or false.
MergePush ==
  /\ pc = "merge_push"
  /\ pc' = "merged"
  /\ UNCHANGED <<coordinatorSprite, coordinatorDeletes, runResult, thrown,
                 envVars, dashVars, workerSprites, iterVars, storeVars, batchVars, workerVars, mergeVars>>

\* ------------------------------------------------------------ runIteration
\* Mutant of IterationResult: the result carries the 0-based number of the
\* iteration.
IterationResult_ZeroBased ==
  [iteration |-> iteration - 1, jobsCompleted |-> Len(branches),
   jobsFailed |-> failed, branches |-> branches]

\* const result: IterationResult = { iteration: this.iteration, ... }
IterationResult ==
  [iteration |-> iteration, jobsCompleted |-> Len(branches),
   jobsFailed |-> failed, branches |-> branches]

\* mergeBranches has returned: the result is recorded, the product state file
\* rewritten (writeFileSync may throw) and the post-iteration checkpoint asked
\* for.
RecordResult ==
  /\ pc = "merged"
  /\ results' = Append(results, IterationResult)
  /\ \E ok \in BOOLEAN :
       IF ok
       THEN /\ productState' = iteration
            /\ pc' = "post_checkpoint"
            /\ UNCHANGED <<coordinatorSprite, coordinatorDeletes, runResult, thrown>>
       ELSE /\ RunFinally(TRUE)
            /\ UNCHANGED productState
  /\ UNCHANGED <<envVars, dashboard, conn, obsVars, workerSprites, iteration, continueLoop, analysis, jobs, written,
                 generated, mergeCalls, storeVars, batchVars, workerVars, mergeVars>>

\* Mutant of ContinueAfter: the bound is compared with <=.
ContinueAfter_OffByOne(n) == n <= maxIterations

\* return this.iteration < CONFIG.maxIterations
ContinueAfter(n) == n < maxIterations

\* The post-iteration checkpoint settles; iteration:complete is emitted,
\* runIteration returns and run() starts its pause.
PostCheckpoint ==
  /\ pc = "post_checkpoint"
  /\ \E ok \in CheckpointOutcomes :
       /\ IF ok
          THEN /\ SetObs(EmitEvent(World, "iteration:complete", 0, "", iteration))
               /\ continueLoop' = ContinueAfter(iteration)
               /\ pc' = "pause"
               /\ UNCHANGED <<coordinatorSprite, coordinatorDeletes, runResult, thrown>>
          ELSE /\ RunFinally(TRUE)
               /\ UNCHANGED <<continueLoop, obsVars>>
  /\ UNCHANGED <<envVars, dashCtl, workerSprites, iteration, results, analysis, jobs, written,
                 generated, mergeCalls, storeVars, batchVars, workerVars, mergeVars>>

\* The pause between iterations ends: the while loop calls runIteration again
\* or is left, and then the finally block runs.
Pause ==
  /\ pc = "pause"
  /\ IF continueLoop
     THEN /\ BeginIteration
          /\ UNCHANGED <<coordinatorSprite, coordinatorDeletes, runResult, thrown>>
     ELSE /\ RunFinally(FALSE)
          /\ UNCHANGED <<iterVars, batchVars, workerVars, mergeVars, obsVars>>
  /\ UNCHANGED <<envVars, dashCtl, workerSprites, storeVars>>

\* coordinatorSprite.delete() settles and run() returns or rethrows.
Cleanup ==
  /\ pc = "cleanup"
  /\ \E ok \in BOOLEAN :
       runResult' = IF ok /\ ~thrown THEN "returned" ELSE "threw"
  /\ pc' = "done"
  /\ UNCHANGED <<coordinatorSprite, coordinatorDeletes, thrown, envVars, dashVars, workerSprites,
                 iterVars, storeVars, batchVars, workerVars, mergeVars>>

Next ==
  \/ Start
  \/ InitCreateSprite
  \/ InitClone
  \/ PreCheckpoint
  \/ AnalysisSnapshot
  \/ AnalysisOracle
  \/ StartWorkers
  \/ \E w \in Slots : WorkerCreate(w)
  \/ \E w \in Slots : WorkerStep(w)
  \/ \E w \in Slots : WorkerDelete(w)
  \/ BatchJoin
  \/ BatchReject
  \/ MergeFetch
  \/ MergeBranch
  \/ MergeAbort
  \/ MergePush
  \/ RecordResult
  \/ PostCheckpoint
  \/ Pause
  \/ Cleanup

Spec == Init /\ [][Next]_vars

CliSpec == CliInit /\ [][Next]_vars

\* The coordinator started with any of the credentials set or missing.
StartupInit ==
  /\ CoordinatorInit
  /\ NoRequest
  /\ NoAnalysisText
  /\ NoListing
  /\ variant = "api"
  /\ external = FALSE
  /\ generated = MaxTotalJobs - StartupJobs
  /\ dashboard = "absent"
  /\ env \in SUBSET RequiredEnv

StartupSpec == StartupInit /\ [][Next]_vars

\* The coordinator with the events it emits.  The dashboard server's own
\* steps (observers, file-watcher deliveries) write neither the job directory
\* nor the list of emitted events and are left to DashSpec.
EventSpec == EventInit /\ [][Next]_vars

\* ------------------------------------------------------ static requests
\* The dashboard server with a request for a static file in hand (any URL
\* but /api/state and /api/jobs/...), beside a coordinator that has not
\* started.
StaticInit ==
  /\ CoordinatorInit
  /\ env = RequiredEnv
  /\ variant = "api"
  /\ external = FALSE
  /\ generated = 0
  /\ dashboard = "other-process"
  /\ reqUrl \in Urls
  /\ response = [status |-> 0, read |-> <<>>]
  /\ NoAnalysisText
  /\ NoListing

\* The request handler runs serveStatic and the read of the file settles.
HandleStatic ==
  /\ response.status = 0
  /\ \E readable \in BOOLEAN : response' = ServeStatic(reqUrl, readable)
  /\ UNCHANGED <<ctlVars, hasCheckpoint, variant, external, reqUrl, workerSprites,
                 iterVars, storeVars, batchVars, workerVars, mergeVars, dashVars,
                 textVars, listVars, env, scan, fan, clientVars, local>>

StaticNext == HandleStatic

StaticSpec == StaticInit /\ [][StaticNext]_vars

\* ------------------------------------------------------ array extraction
\* The oracle's answer as a list of tokens: the four brackets, and "t" for a
\* run of characters without brackets that JSON accepts where it stands (a
\* scalar of a list, the scalar fields and the keys of an object).
Tokens == {"[", "]", "{", "}", "t"}

\* The runners of the source: both EmergentBuilder classes and the simple
\* runner.
Runners == {"api", "cli", "simple"}

\* String.prototype.indexOf(tok, from): the first position of tok at or after
\* `from`; 0 when there is none.
IndexOf(text, tok, from) ==
  IF \E k \in from..Len(text) : text[k] = tok
  THEN CHOOSE k \in from..Len(text) :
         text[k] = tok /\ \A h \in from..(k - 1) : text[h] # tok
  ELSE 0

\* The last position of tok in the text; 0 when there is none.
LastIndexOf(text, tok) ==
  IF \E k \in 1..Len(text) : text[k] = tok
  THEN CHOOSE k \in 1..Len(text) :
         text[k] = tok /\ \A h \in (k + 1)..Len(text) : text[h] # tok
  ELSE 0

\* text.match(/\[[\s\S]*\]/): from the first "[" to the last "]" of the text;
\* <<>> stands for null (no "]" follows any "[").
GreedyMatch(text) ==
  LET i == IndexOf(text, "[", 1)
      j == LastIndexOf(text, "]")
  IN  IF i # 0 /\ j > i THEN SubSeq(text, i, j) ELSE <<>>

\* output.match(/\[[\s\S]*?\]/): from the first "[" to the first "]" after it.
LazyMatch(text) ==
  LET i == IndexOf(text, "[", 1)
      j == IF i = 0 THEN 0 ELSE IndexOf(text, "]", i + 1)
  IN  IF j # 0 THEN SubSeq(text, i, j) ELSE <<>>

\* The match runAnalysis takes from the text.
JsonMatch(text, runner) ==
  IF runner = "simple" THEN LazyMatch(text) ELSE GreedyMatch(text)

\* JSON.parse reads s[k..] with `stack` the brackets that are open: TRUE when
\* s is one JSON value and nothing else.
RECURSIVE ParsesFrom(_, _, _)
ParsesFrom(s, k, stack) ==
  IF k > Len(s) THEN stack = <<>>
  ELSE IF k > 1 /\ stack = <<>> THEN FALSE
  ELSE IF s[k] \in {"[", "{"} THEN ParsesFrom(s, k + 1, <<s[k]>> \o stack)
  ELSE IF s[k] = "]"
       THEN stack # <<>> /\ Head(stack) = "[" /\ ParsesFrom(s, k + 1, Tail(stack))
  ELSE IF s[k] = "}"
       THEN stack # <<>> /\ Head(stack) = "{" /\ ParsesFrom(s, k + 1, Tail(stack))
  ELSE ParsesFrom(s, k + 1, stack)

\* JSON.parse(s) does not throw.
JsonParses(s) == s # <<>> /\ ParsesFrom(s, 1, <<>>)

\* The elements of the list JSON.parse(s) yields, s a text that parses and
\* starts with "[": each element is the text of one value.
RECURSIVE ElementsFrom(_, _, _, _, _)
ElementsFrom(s, k, depth, cur, acc) ==
  IF k >= Len(s) THEN acc
  ELSE LET d == IF s[k] \in {"[", "{"} THEN depth + 1
                ELSE IF s[k] \in {"]", "}"} THEN depth - 1
                ELSE depth
       IN  IF d = 0
           THEN ElementsFrom(s, k + 1, 0, <<>>, Append(acc, Append(cur, s[k])))
           ELSE ElementsFrom(s, k + 1, d, Append(cur, s[k]), acc)

Elements(s) == ElementsFrom(s, 2, 0, <<>>, <<>>)

\* What runAnalysis returns for the oracle's text: [] when nothing matches
\* and when JSON.parse throws, the parsed list otherwise.
ExtractJobs(text, runner) ==
  LET jsonMatch == JsonMatch(text, runner)
  IN  IF jsonMatch = <<>> THEN <<>>
      ELSE IF JsonParses(jsonMatch) THEN Elements(jsonMatch)
      ELSE <<>>

\* runAnalysis alone, with the oracle's answer in hand, in one of the runners.
ParseInit ==
  /\ CoordinatorInit
  /\ env = RequiredEnv
  /\ NoRequest
  /\ NoListing
  /\ variant \in Runners
  /\ external = FALSE
  /\ generated = 0
  /\ dashboard = "absent"
  /\ \E n \in 0..MaxText : output \in [1..n -> Tokens]
  /\ parsed = [done |-> FALSE, jobs |-> <<>>]

\* runAnalysis extracts the job list from the text and returns it.
ParseOutput ==
  /\ ~parsed.done
  /\ parsed' = [done |-> TRUE, jobs |-> ExtractJobs(output, variant)]
  /\ UNCHANGED <<ctlVars, hasCheckpoint, variant, external, httpVars, output,
                 workerSprites, iterVars, storeVars, batchVars, workerVars,
                 mergeVars, dashVars, listVars, env, scan, fan, clientVars, local>>

ParseNext == ParseOutput

ParseSpec == ParseInit /\ [][ParseNext]_vars

\* ------------------------------------------------------ bucket listing
\* Job ids as the digits after "job-": job-1, job-10, job-2 and job-21.
IdStrings == {<<1>>, <<1, 0>>, <<2>>, <<2, 1>>}

\* const priorityOrder = { critical: 0, high: 1, medium: 2, low: 3 }
PriorityOrder_Alphabetical == [critical |-> 0, high |-> 1, low |-> 2, medium |-> 3]

PriorityOrder == [critical |-> 0, high |-> 1, medium |-> 2, low |-> 3]

Priorities == DOMAIN PriorityOrder

\* What a .json file of a bucket holds: a record of some priority, or
\* nothing that can be read and parsed.
FileContents == Priorities \cup {"unreadable"}

\* The file named after id i with content c.
BucketFile(i, c) ==
  IF c = "unreadable"
  THEN [id |-> i, priority |-> "low", readable |-> FALSE]
  ELSE [id |-> i, priority |-> c, readable |-> TRUE]

\* The names of at most MaxFiles files in any order, no two the same.
FileNames ==
  {s \in UNION {[1..n -> IdStrings] : n \in 0..MaxFiles} :
     \A i, j \in 1..Len(s) : i # j => s[i] # s[j]}

\* What readdirSync returns for the files named `names` with contents c.
Listing(names, c) == [k \in 1..Len(names) |-> BucketFile(names[k], c[k])]

\* a.localeCompare(b) for strings of digits, read from position k on.
RECURSIVE LocaleCompareFrom(_, _, _)
LocaleCompareFrom(a, b, k) ==
  IF k > Len(a) /\ k > Len(b) THEN 0
  ELSE IF k > Len(a) THEN -1
  ELSE IF k > Len(b) THEN 1
  ELSE IF a[k] < b[k] THEN -1
  ELSE IF a[k] > b[k] THEN 1
  ELSE LocaleCompareFrom(a, b, k + 1)

LocaleCompare(a, b) == LocaleCompareFrom(a, b, 1)

\* The comparator readJobFiles sorts with.
CompareJobs(a, b) ==
  LET priorityDiff == PriorityOrder[a.priority] - PriorityOrder[b.priority]
  IN  IF priorityDiff # 0 THEN priorityDiff ELSE LocaleCompare(a.id, b.id)

\* Array.prototype.sort (stable): job is put before the first job of the
\* sorted list it compares below.
RECURSIVE InsertJob(_, _)
InsertJob(job, sorted) ==
  IF sorted = <<>> THEN <<job>>
  ELSE IF CompareJobs(job, Head(sorted)) < 0 THEN <<job>> \o sorted
  ELSE <<Head(sorted)>> \o InsertJob(job, Tail(sorted))

RECURSIVE SortJobs(_, _)
SortJobs(list, k) ==
  IF k = 0 THEN <<>> ELSE InsertJob(list[k], SortJobs(list, k - 1))

\* The record JSON.parse yields for a readable file.
JobOf(file) == [id |-> file.id, priority |-> file.priority]

\* readJobFiles(status) over the files readdirSync returned: the files that
\* cannot be read are dropped, the records of the others sorted.
ReadJobRecords(files) ==
  LET IsReadable(f) == f.readable
      read == SelectSeq(files, IsReadable)
      records == [k \in 1..Len(read) |-> JobOf(read[k])]
  IN  SortJobs(records, Len(records))

\* The dashboard server lists one bucket, beside a coordinator that has not
\* started.
ListInit ==
  /\ CoordinatorInit
  /\ env = RequiredEnv
  /\ NoRequest
  /\ NoAnalysisText
  /\ variant = "api"
  /\ external = FALSE
  /\ generated = 0
  /\ dashboard = "other-process"
  /\ \E names \in FileNames :
       \E c \in [1..Len(names) -> FileContents] : dirFiles = Listing(names, c)
  /\ listed = [done |-> FALSE, jobs |-> <<>>, answered |-> FALSE, body |-> <<>>]

\* updateStateFromFiles: currentState.jobsList[bucket] = readJobFiles(bucket)
ReadBucket ==
  /\ ~listed.done
  /\ listed' = [listed EXCEPT !.done = TRUE, !.jobs = ReadJobRecords(dirFiles)]
  /\ UNCHANGED <<ctlVars, hasCheckpoint, variant, external, httpVars, textVars,
                 dirFiles, workerSprites, iterVars, storeVars, batchVars,
                 workerVars, mergeVars, dashVars, env, scan, fan, clientVars, local>>

\* handleJobsRequest: GET /api/jobs/<name> answers the list of the snapshot,
\* [] when <name> is no bucket.
HandleJobsRequest ==
  /\ listed.done
  /\ ~listed.answered
  /\ \E known \in BOOLEAN :
       listed' = [listed EXCEPT !.answered = TRUE,
                                !.body = IF known THEN listed.jobs ELSE <<>>]
  /\ UNCHANGED <<ctlVars, hasCheckpoint, variant, external, httpVars, textVars,
                 dirFiles, workerSprites, iterVars, storeVars, batchVars,
                 workerVars, mergeVars, dashVars, env, scan, fan, clientVars, local>>

ListNext == ReadBucket \/ HandleJobsRequest

ListSpec == ListInit /\ [][ListNext]_vars

\* ------------------------------------------------------ external mutation
\* Another process takes a record out of pending or in-progress between two
\* stretches of the coordinator's code: it removes it (to = "none") or moves
\* it to another bucket.
ExternalTakes(id, from, to) ==
  /\ external
  /\ pc # "done"
  /\ id \in bucket[from]
  /\ bucket' = IF to = "none"
               THEN [bucket EXCEPT ![from] = @ \ {id}]
               ELSE [bucket EXCEPT ![from] = @ \ {id}, ![to] = @ \cup {id}]
  /\ UNCHANGED <<ctlVars, envVars, workerSprites, iterVars, created, remote, batchVars,
                 workerVars, mergeVars, dashVars>>

ExtNext ==
  \/ Next
  \/ \E id \in JobIds, from \in {"pending", "in-progress"} :
       \E to \in (Buckets \cup {"none"}) \ {from} : ExternalTakes(id, from, to)

ExtSpec == ExtInit /\ [][ExtNext]_vars

\* ------------------------------------------------------ dashboard actions
coordVars == <<ctlVars, envVars, workerSprites, iterVars, created, remote, batchVars,
               workerVars, mergeVars, productState, dashboard>>

\* GET /api/state: the response body.
HandleStateRequest(st) == st.ds

\* The message the connection handler sends.
InitialMessage(st) == [type |-> "initial", data |-> st.ds]

\* Mutant of OnConnection: the client is added without being sent the
\* initial state.
OnConnection_NoInitial(st, c) == st

\* wsServer.on('connection'): after clients.add(ws), the initial state is sent.
OnConnection(st, c) == [st EXCEPT !.rx[c] = Append(st.rx[c], InitialMessage(st))]

\* An observer connects; connections are numbered in the order the server
\* accepts them.
Connect(c) ==
  /\ dashboard # "absent"
  /\ conn[c] = "none"
  /\ \A d \in Conns : d < c => conn[d] # "none"
  /\ conn' = [conn EXCEPT ![c] = "open"]
  /\ SetObs(OnConnection(World, c))
  /\ UNCHANGED <<coordVars, bucket>>

\* The socket of a connection leaves the OPEN state (the observer goes away
\* or the socket fails): nothing more is sent on it and its messages are
\* forgotten.  The server's close or error handler has not run yet.
SocketCloses(c) ==
  /\ conn[c] = "open"
  /\ conn' = [conn EXCEPT ![c] = "closing"]
  /\ received' = [received EXCEPT ![c] = <<>>]
  /\ UNCHANGED <<coordVars, bucket, emitted, dashState, watchQueue>>

\* ws.on('close') / ws.on('error'): clients.delete(ws).
OnClose(c) ==
  /\ conn[c] = "closing"
  /\ conn' = [conn EXCEPT ![c] = "closed"]
  /\ UNCHANGED <<coordVars, bucket, obsVars>>

\* Mutant of OnFileChange: the event is passed on without a look at the job
\* directory.
OnFileChange_NoUpdate(st, ev) == Broadcast(st, ev)

\* The callback the dashboard server gives its FileWatcher.
OnFileChange(st, ev) == Broadcast(UpdateStateFromFiles(st), ev)

\* FileWatcher.handleFileChange: for an added or changed file the record is
\* read and the callback called with job:created or job:updated; when the
\* file cannot be read (it is gone) the error is logged and the callback is
\* not called.  For a removed file the callback is called with job:moved.
HandleFileChange(st, e) ==
  IF e.kind \in {"add", "change"}
  THEN IF e.job \in st.b[e.status]
       THEN OnFileChange(st, [type |-> IF e.kind = "add" THEN "job:created"
                                       ELSE "job:updated",
                              job |-> e.job, status |-> e.status,
                              iteration |-> 0, n |-> 0])
       ELSE st
  ELSE OnFileChange(st, [type |-> "job:moved", job |-> e.job, status |-> e.status,
                         iteration |-> 0, n |-> 0])

\* chokidar delivers its next event.
WatcherDeliver ==
  /\ dashboard # "absent"
  /\ watchQueue # <<>>
  /\ SetObs(HandleFileChange([World EXCEPT !.wq = Tail(watchQueue)], Head(watchQueue)))
  /\ UNCHANGED <<coordVars, bucket, conn>>

\* The coordinator and the dashboard server's file watcher, with no observer
\* connected.
WatchNext ==
  \/ Next
  \/ WatcherDeliver

WatchSpec == DashInit /\ [][WatchNext]_vars

\* ------------------------------------------- dashboard in its own process
\* The order in which updateStateFromFiles lists the buckets, for the counts
\* and again for the records.
ScanOrder == <<"pending", "in-progress", "completed", "failed">>

\* The event the FileWatcher hands to its callback for a change e.
FileEvent(e) ==
  [type |-> IF e.kind = "add" THEN "job:created"
            ELSE IF e.kind = "change" THEN "job:updated"
            ELSE "job:moved",
   job |-> e.job, status |-> e.status, iteration |-> 0, n |-> 0]

\* chokidar delivers its next event to a dashboard server that runs in a
\* process of its own: for an added or changed file that is gone the callback
\* is not called; otherwise the callback starts updateStateFromFiles.
ScanBegin ==
  /\ dashboard = "other-process"
  /\ scan.pos = 0
  /\ watchQueue # <<>>
  /\ watchQueue' = Tail(watchQueue)
  /\ LET e == Head(watchQueue)
     IN  scan' = IF e.kind \in {"add", "change"} /\ e.job \notin bucket[e.status]
                 THEN scan
                 ELSE [NoScan EXCEPT !.pos = 1, !.ev = FileEvent(e)]
  /\ UNCHANGED <<ctlVars, hasCheckpoint, variant, external, httpVars, textVars,
                 listVars, env, fan, clientVars, local, workerSprites, iterVars, storeVars, batchVars,
                 workerVars, mergeVars, dashCtl, emitted, dashState, received>>

\* The next countJobFiles call lists its bucket.
ScanCount ==
  /\ scan.pos \in 1..4
  /\ scan' = [scan EXCEPT !.pos = @ + 1,
                          !.jobs[ScanOrder[scan.pos]] =
                              CountJobFiles(bucket, ScanOrder[scan.pos])]
  /\ UNCHANGED <<ctlVars, hasCheckpoint, variant, external, httpVars, textVars,
                 listVars, env, fan, clientVars, local, workerSprites, iterVars, storeVars, batchVars,
                 workerVars, mergeVars, dashVars>>

\* The next readJobFiles call lists its bucket and reads the records; after
\* the last one the state is complete, the iteration number is taken from
\* PRODUCT_STATE.md and the event is broadcast.
ScanRead ==
  /\ scan.pos \in 5..8
  /\ LET k == ScanOrder[scan.pos - 4]
         lists == [scan.jobsList EXCEPT ![k] = ReadJobFiles(bucket, k)]
     IN  IF scan.pos < 8
         THEN /\ scan' = [scan EXCEPT !.pos = @ + 1, !.jobsList = lists]
              /\ UNCHANGED <<dashState, received>>
         ELSE /\ scan' = NoScan
              /\ dashState' = [iteration |-> IF productState > 0 THEN productState
                                             ELSE dashState.iteration,
                               jobs |-> scan.jobs,
                               jobsList |-> lists,
                               coordinatorConnected |-> dashState.coordinatorConnected]
              /\ received' = Broadcast(World, scan.ev).rx
  /\ UNCHANGED <<ctlVars, hasCheckpoint, variant, external, httpVars, textVars,
                 listVars, env, fan, clientVars, local, workerSprites, iterVars, storeVars, batchVars,
                 workerVars, mergeVars, dashCtl, emitted, watchQueue>>

\* The coordinator beside a dashboard server in another process.
SnapInit ==
  /\ CoordinatorInit
  /\ env = RequiredEnv
  /\ NoRequest
  /\ NoAnalysisText
  /\ NoListing
  /\ variant = "api"
  /\ external = FALSE
  /\ ~hasCheckpoint
  /\ generated = MaxTotalJobs - SnapJobs
  /\ dashboard = "other-process"

SnapNext ==
  \/ Next
  \/ ScanBegin
  \/ ScanCount
  \/ ScanRead

SnapSpec == SnapInit /\ [][SnapNext]_vars

\* ------------------------------------------------------------ fan-out
\* clients.delete(ws)
DeleteClient(clients, c) == SelectSeq(clients, LAMBDA d : d # c)

\* Mutant of SendAll: the send is not inside a try block, and a send that
\* throws ends the forEach.
RECURSIVE SendAll_AbortOnThrow(_, _, _, _, _, _)
SendAll_AbortOnThrow(clients, k, ready, inbox, msg, throwing) ==
  IF k > Len(clients) THEN inbox
  ELSE IF ready[clients[k]] = "open" /\ clients[k] \in throwing THEN inbox
  ELSE SendAll_AbortOnThrow(clients, k + 1, ready,
         IF ready[clients[k]] = "open"
         THEN [inbox EXCEPT ![clients[k]] = Append(@, msg)]
         ELSE inbox,
         msg, throwing)

\* broadcast's clients.forEach, from the k-th client on: a client whose
\* readyState is OPEN is sent the message, and a send that throws (the
\* clients of `throwing`) is caught and logged.
RECURSIVE SendAll(_, _, _, _, _, _)
SendAll(clients, k, ready, inbox, msg, throwing) ==
  IF k > Len(clients) THEN inbox
  ELSE SendAll(clients, k + 1, ready,
         IF ready[clients[k]] = "open" /\ clients[k] \notin throwing
         THEN [inbox EXCEPT ![clients[k]] = Append(@, msg)]
         ELSE inbox,
         msg, throwing)

\* wsServer.on('connection'): the socket is added to clients and sent the
\* initial state (message 0).
FanConnect(c) ==
  /\ fan.ready[c] = "none"
  /\ \A d \in FanConns : d < c => fan.ready[d] # "none"
  /\ fan' = [fan EXCEPT !.clients = Append(@, c),
                        !.ready[c] = "open",
                        !.inbox[c] = <<0>>]

\* The socket leaves the OPEN state; its close event is still to come.
FanSocketCloses(c) ==
  /\ fan.ready[c] = "open"
  /\ fan' = [fan EXCEPT !.ready[c] = "closing"]

\* ws.on('error'): clients.delete(ws); the socket is closed after an error.
FanOnError(c) ==
  /\ fan.ready[c] \in {"open", "closing"}
  /\ fan' = [fan EXCEPT !.clients = DeleteClient(@, c), !.ready[c] = "errored"]

\* ws.on('close'): clients.delete(ws).
FanOnClose(c) ==
  /\ fan.ready[c] \in {"closing", "errored"}
  /\ fan' = [fan EXCEPT !.clients = DeleteClient(@, c), !.ready[c] = "closed"]

\* broadcast(event) for the next event; client.send throws for any of the
\* open clients.
FanBroadcast ==
  /\ fan.n < MaxBroadcasts
  /\ \E throwing \in SUBSET {c \in FanConns : fan.ready[c] = "open"} :
       fan' = [fan EXCEPT !.n = @ + 1,
                          !.threw = throwing,
                          !.inbox = SendAll(fan.clients, 1, fan.ready, fan.inbox,
                                            fan.n + 1, throwing)]

FanStep ==
  \/ \E c \in FanConns : FanConnect(c)
  \/ \E c \in FanConns : FanSocketCloses(c)
  \/ \E c \in FanConns : FanOnError(c)
  \/ \E c \in FanConns : FanOnClose(c)
  \/ FanBroadcast

\* The dashboard server's observer connections and broadcasts, beside a
\* coordinator that has not started.
FanNext ==
  /\ FanStep
  /\ UNCHANGED <<ctlVars, hasCheckpoint, variant, external, httpVars, textVars,
                 listVars, env, scan, clientVars, local, workerSprites, iterVars,
                 storeVars, batchVars, workerVars, mergeVars, dashVars>>

FanInit ==
  /\ CoordinatorInit
  /\ env = RequiredEnv
  /\ NoRequest
  /\ NoAnalysisText
  /\ NoListing
  /\ variant = "api"
  /\ external = FALSE
  /\ ~hasCheckpoint
  /\ generated = 0
  /\ dashboard = "other-process"

FanSpec == FanInit /\ [][FanNext]_vars

\* ------------------------------------------------------ dashboard client
\* Everything but the dashboard client and the port it connects to.
besideClient == <<ctlVars, hasCheckpoint, variant, external, httpVars, textVars,
                  listVars, env, scan, fan, local, workerSprites, iterVars, storeVars,
                  batchVars, workerVars, mergeVars, dashVars>>

\* attemptReconnect(): below maxReconnectAttempts the counter is incremented
\* and connect() scheduled; otherwise the client switches to fallback mode
\* and schedules nothing.
AttemptReconnect(c) ==
  IF c.reconnectAttempts < maxReconnectAttempts
  THEN [c EXCEPT !.reconnectAttempts = @ + 1, !.timer = TRUE]
  ELSE [c EXCEPT !.fallbackMode = TRUE, !.status = "fallback"]

\* ws.onclose
OnWsClose(c) ==
  AttemptReconnect([c EXCEPT !.ws = "closed", !.isConnected = FALSE,
                             !.status = "disconnected"])

\* ws.onerror
OnWsError(c) == [c EXCEPT !.fallbackMode = TRUE]

\* ws.onopen
ClientOpen ==
  /\ client.ws = "connecting"
  /\ pushUp
  /\ client' = [client EXCEPT !.ws = "open", !.isConnected = TRUE,
                              !.fallbackMode = FALSE, !.reconnectAttempts = 0,
                              !.status = "live"]
  /\ UNCHANGED <<pushUp, besideClient>>

\* The connection cannot be established: the browser fires error, then close.
ClientConnectFails ==
  /\ client.ws = "connecting"
  /\ ~pushUp
  /\ client' = OnWsClose(OnWsError(client))
  /\ UNCHANGED <<pushUp, besideClient>>

\* An open connection is lost: the browser fires close, after an error event
\* when the connection failed.
ClientConnectionLost ==
  /\ client.ws = "open"
  /\ \E withError \in BOOLEAN :
       client' = OnWsClose(IF withError THEN OnWsError(client) ELSE client)
  /\ UNCHANGED <<pushUp, besideClient>>

\* The timer of attemptReconnect fires: connect().
ClientReconnect ==
  /\ client.timer
  /\ client' = [client EXCEPT !.timer = FALSE, !.ws = "connecting"]
  /\ UNCHANGED <<pushUp, besideClient>>

\* The interval of setupFallback fires: fetchState() is called when the
\* client is in fallback mode or not connected.
ClientPollTick ==
  /\ IF client.fallbackMode \/ ~client.isConnected
     THEN /\ client.fetching < MaxFetching
          /\ client' = [client EXCEPT !.polled = TRUE, !.fetching = @ + 1]
     ELSE client' = [client EXCEPT !.polled = FALSE]
  /\ UNCHANGED <<pushUp, besideClient>>

\* fetchState() after its await: the response has arrived, or fetch threw.
ClientFetchSettles ==
  /\ client.fetching > 0
  /\ \E ok \in BOOLEAN :
       client' = [client EXCEPT
                    !.fetching = @ - 1,
                    !.status = IF ~ok THEN "error"
                               ELSE IF ~client.isConnected THEN "fallback"
                               ELSE @]
  /\ UNCHANGED <<pushUp, besideClient>>

\* The dashboard server's WebSocket port goes away or comes back.
PushToggles ==
  /\ pushUp' = ~pushUp
  /\ UNCHANGED <<client, besideClient>>

\* The dashboard client in a browser, beside a coordinator that has not
\* started.
ClientNext ==
  \/ ClientOpen
  \/ ClientConnectFails
  \/ ClientConnectionLost
  \/ ClientReconnect
  \/ ClientPollTick
  \/ ClientFetchSettles
  \/ PushToggles

ClientInit ==
  /\ CoordinatorInit
  /\ env = RequiredEnv
  /\ NoRequest
  /\ NoAnalysisText
  /\ NoListing
  /\ variant = "api"
  /\ external = FALSE
  /\ ~hasCheckpoint
  /\ generated = 0
  /\ dashboard = "other-process"

\* Timers fire, connection attempts and requests settle.
ClientSpec ==
  /\ ClientInit
  /\ [][ClientNext]_vars
  /\ WF_vars(ClientOpen)
  /\ WF_vars(ClientConnectFails)
  /\ WF_vars(ClientReconnect)
  /\ WF_vars(ClientPollTick)
  /\ WF_vars(ClientFetchSettles)

\* ------------------------------------------------------ simple runner
\* Everything but the simple runner.
besideLocal == <<ctlVars, hasCheckpoint, variant, external, httpVars, textVars,
                 listVars, env, scan, fan, clientVars, workerSprites, iterVars,
                 storeVars, batchVars, workerVars, mergeVars, dashVars>>

\* fs.existsSync(from) guards fs.renameSync(from, to).
MoveFile(files, k, from, to) ==
  IF files[k] = from THEN [files EXCEPT ![k] = to] ELSE files

\* The catch block of executeJob: the job file goes to failed when it is
\* still in in-progress; git checkout main is tried and its failure swallowed
\* (toMain says whether it succeeded).  runIteration then counts the failure
\* and turns to the next job.
CatchJob(l, k, toMain) ==
  [l EXCEPT !.files = MoveFile(@, k, "in-progress", "failed"),
            !.head = IF toMain THEN Mainline ELSE @,
            !.failedCount = @ + 1,
            !.idx = @ + 1,
            !.pc = "loop"]

\* runIteration up to the loop: the analysis returns n jobs and their files
\* are written to pending.
LocalRunIteration ==
  /\ local.pc = "off"
  /\ \E n \in LocalIds :
       local' = [local EXCEPT
                   !.pc = "loop", !.n = n, !.idx = 1,
                   !.files = [k \in LocalIds |-> IF k <= n THEN "pending" ELSE "none"]]
  /\ UNCHANGED besideLocal

\* executeJob up to its await: the job file goes to in-progress and
\* git checkout -b creates the job's branch at whatever is checked out,
\* keeping the uncommitted changes; when git fails the catch block runs.
LocalExecuteJob ==
  /\ local.pc = "loop"
  /\ local.idx <= local.n
  /\ LET k == local.idx
         l == [local EXCEPT !.files = MoveFile(@, k, "pending", "in-progress")]
     IN \E gitOk \in BOOLEAN, toMain \in BOOLEAN :
          local' =
            IF gitOk
            THEN [l EXCEPT !.created = Append(@, [job |-> k, from |-> l.head,
                                                  dirty |-> l.dirty]),
                           !.head = k,
                           !.pc = "run"]
            ELSE CatchJob(l, k, toMain)
  /\ UNCHANGED besideLocal

\* executeJob after its await: runClaudeCode has resolved or rejected, having
\* edited the working copy or not; then git add -A and git commit, the job
\* file goes to completed, git checkout main; the first step that fails
\* leads to the catch block.
LocalJobSettles ==
  /\ local.pc = "run"
  /\ LET k == local.idx
     IN \E edited \in BOOLEAN, ranOk \in BOOLEAN, commitOk \in BOOLEAN,
           backOk \in BOOLEAN, toMain \in BOOLEAN :
          LET l1 == [local EXCEPT !.dirty = IF edited THEN @ \cup {k} ELSE @]
              l2 == [l1 EXCEPT !.commits = Append(@, [job |-> k, on |-> l1.head,
                                                      changes |-> l1.dirty]),
                               !.dirty = {},
                               !.files = MoveFile(@, k, "in-progress", "completed")]
          IN local' =
               IF ~ranOk THEN CatchJob(l1, k, toMain)
               ELSE IF ~commitOk THEN CatchJob(l1, k, toMain)
               ELSE IF ~backOk THEN CatchJob(l2, k, toMain)
               ELSE [l2 EXCEPT !.head = Mainline,
                               !.completedBranches = Append(@, k),
                               !.idx = @ + 1,
                               !.pc = "loop"]
  /\ UNCHANGED besideLocal

\* The loop of runIteration is over: the completed branches are handed to
\* mergeBranches.
LocalLoopEnds ==
  /\ local.pc = "loop"
  /\ local.idx > local.n
  /\ local' = [local EXCEPT !.pc = "merge"]
  /\ UNCHANGED besideLocal

\* The simple runner alone: nothing of the Sprites coordinator runs.
LocalNext ==
  \/ LocalRunIteration
  \/ LocalExecuteJob
  \/ LocalJobSettles
  \/ LocalLoopEnds

LocalInit ==
  /\ CoordinatorInit
  /\ env = RequiredEnv
  /\ NoRequest
  /\ NoAnalysisText
  /\ NoListing
  /\ variant = "simple"
  /\ external = FALSE
  /\ ~hasCheckpoint
  /\ generated = 0
  /\ dashboard = "absent"

LocalSpec == LocalInit /\ [][LocalNext]_vars

\* The coordinator and the whole dashboard server.
DashNext ==
  \/ Next
  \/ \E c \in Conns : Connect(c)
  \/ \E c \in Conns : SocketCloses(c)
  \/ \E c \in Conns : OnClose(c)
  \/ WatcherDeliver

DashSpec == ConnInit /\ [][DashNext]_vars

\* Every external call settles and the event loop runs every continuation
\* that is ready.
FairSpec == Spec /\ WF_vars(Next)

\* ------------------------------------------------------------ claims
BucketsHolding(id) == {b \in Buckets : id \in bucket[b]}

\* C1 (as claimed): every job id that has been created is in exactly one of
\* the four buckets, in every reachable state.
C1_BucketExclusivity ==
  \A id \in created : Cardinality(BucketsHolding(id)) = 1

\* runAnalysis has returned an empty list in the current iteration.
AnalysedEmpty == analysis = "returned" /\ Len(jobs) = 0

\* C2: once runAnalysis has returned an empty list in iteration n, run() is
\* leaving its loop (continueLoop is false and run() waits in its pause, in
\* its cleanup or has ended); no record was written, no worker started and
\* mergeBranches was not called in that iteration; from then on no record is
\* written or moved and no further iteration starts; and run() ends.
C2_StoppingLaw ==
  /\ [](AnalysedEmpty =>
          /\ ~continueLoop
          /\ pc \in {"pause", "cleanup", "done"}
          /\ written = 0
          /\ mergeCalls = 0
          /\ \A w \in Slots : wpc[w] = "idle" /\ wsprite[w] = "none")
  /\ [][AnalysedEmpty =>
          /\ AnalysedEmpty'
          /\ iteration' = iteration
          /\ bucket' = bucket
          /\ results' = results]_vars
  /\ (AnalysedEmpty ~> (pc = "done" /\ runResult # "running"))

\* C2 witness: the second iteration's analysis came back empty and run() has
\* returned.
C2_Witness ==
  /\ AnalysedEmpty
  /\ iteration = 2
  /\ pc = "done"
  /\ runResult = "returned"

\* spawnWorker of job w has failed: createSprite rejected, or a call of the
\* try block rejected and the catch block ran.
CreateRejected(w) == wpc[w] = "rejected" /\ wsprite[w] = "none"
CaughtFailure(w) == wpc[w] \in {"delete", "resolved", "rejected"} /\ wsprite[w] # "none" /\ ~wok[w]
JobFailed(w) == CreateRejected(w) \/ CaughtFailure(w)

\* run() has left runWorkers by an error: workers were started, the iteration
\* has no result and mergeBranches was never called.
DispatchAborted ==
  /\ pc \in {"cleanup", "done"}
  /\ thrown
  /\ \E w \in Slots : wpc[w] # "idle"
  /\ mergeCalls = 0

\* C3 (as claimed): a job failing at any step of its protocol neither aborts
\* the batch nor the iteration, and the result recorded for the iteration
\* counts every generated job as completed or failed.
C3_PartialFailureIsolation ==
  /\ (\E w \in Slots : JobFailed(w)) => ~DispatchAborted
  /\ \A k \in 1..Len(results) :
       results[k].iteration = iteration =>
         results[k].jobsCompleted + results[k].jobsFailed = Len(jobs)

\* C4 (as claimed): when step 2 to 7 fails for a job, its record is not left
\* in in-progress and spawnWorker returns the failure result instead of
\* throwing.
C4_PerJobFailureHandling ==
  \A w \in 1..Len(jobs) :
    (CreateRejected(w) \/ CaughtFailure(w)) =>
      /\ jobs[w] \notin bucket["in-progress"]
      /\ ~CreateRejected(w)

\* C5: a worker sprite is deleted at most once, and only once its job's
\* outcome is determined (the record has left in-progress and spawnWorker is
\* in or past its finally block); a spawnWorker that has reached its finally
\* block has deleted the sprite it created; so when run() has ended and every
\* started worker has finished, no worker sprite is alive.
C5_WorkerTeardown ==
  /\ \A w \in Slots :
       /\ wdeletes[w] <= 1
       /\ (wdeletes[w] = 1) <=> (wsprite[w] = "deleted")
       /\ wsprite[w] = "deleted" =>
            /\ wpc[w] \in {"delete", "resolved", "rejected"}
            /\ w <= Len(jobs) => jobs[w] \notin bucket["in-progress"]
       /\ wpc[w] \in {"delete", "resolved"} => wsprite[w] = "deleted"
       /\ wpc[w] = "rejected" => wsprite[w] \in {"none", "deleted"}
  /\ workerSprites = Cardinality({w \in Slots : wsprite[w] = "alive"})
  /\ (pc = "done" /\ \A w \in Slots : wpc[w] \in {"idle", "resolved", "rejected"})
       => workerSprites = 0

\* C5 witness: run() ended by an error of one worker, and a sibling whose
\* protocol failed has finished with its sprite deleted.
C5_Witness ==
  /\ pc = "done"
  /\ runResult = "threw"
  /\ \A w \in Slots : wpc[w] \in {"idle", "resolved", "rejected"}
  /\ \E w \in Slots : wpc[w] = "resolved" /\ ~wok[w] /\ wdeletes[w] = 1
  /\ \E w \in Slots : wpc[w] = "resolved" /\ wok[w] /\ wdeletes[w] = 1
  /\ \E w \in Slots : CreateRejected(w)

\* C6: the coordinator sprite is deleted at most once and only when run()
\* leaves its try block; run() ends only after the delete call, so after the
\* end of run() a coordinator sprite that was created is deleted.
C6_CoordinatorTeardown ==
  /\ coordinatorDeletes <= 1
  /\ (coordinatorDeletes = 1) <=> (coordinatorSprite = "deleted")
  /\ coordinatorSprite = "deleted" => pc \in {"cleanup", "done"}
  /\ pc \in {"cleanup", "done"} => coordinatorSprite # "alive"
  /\ (runResult # "running") <=> (pc = "done")

\* C6 witness: run() rethrew an error of the analysis stage after deleting
\* the coordinator sprite.
C6_Witness ==
  /\ pc = "done"
  /\ runResult = "threw"
  /\ analysis = "threw"
  /\ coordinatorSprite = "deleted"
  /\ coordinatorDeletes = 1

\* The batch a list position belongs to when the list is cut into
\* consecutive batches of maxWorkers jobs.
BatchIndex(w) == (w - 1) \div maxWorkers

Started == {w \in 1..Len(jobs) : wpc[w] # "idle"}

\* C7: the jobs are started in consecutive batches of maxWorkers jobs (the
\* last one possibly smaller), all jobs of a batch together, and a job of a
\* later batch is started only when every job of the earlier batches has
\* resolved with its record in completed or failed.
C7_BatchSequencing ==
  \A w \in Started :
    \A v \in 1..Len(jobs) :
      /\ BatchIndex(v) = BatchIndex(w) => v \in Started
      /\ BatchIndex(v) < BatchIndex(w) =>
           /\ wpc[v] = "resolved"
           /\ jobs[v] \in bucket["completed"] \cup bucket["failed"]

\* C7 witness: five jobs under maxWorkers = 2; the third batch, of one job,
\* has started after both batches of two have finished, one job having
\* failed.
C7_Witness ==
  /\ maxWorkers = 2
  /\ Len(jobs) = 5
  /\ Started = 1..5
  /\ batchStart = 4
  /\ wpc[5] = "create"
  /\ \E v \in 1..4 : ~wok[v]

\* C8: at most maxWorkers worker sprites are alive and at most maxWorkers
\* records are in in-progress.
C8_BoundedOutstanding ==
  /\ workerSprites <= maxWorkers
  /\ Cardinality({w \in Slots : wpc[w] \notin {"idle", "resolved", "rejected"}}) <= maxWorkers
  /\ Cardinality(bucket["in-progress"]) <= maxWorkers

\* C8 witness: a full batch is outstanding while jobs of the list wait.
C8_Witness ==
  /\ workerSprites = maxWorkers
  /\ Cardinality(bucket["in-progress"]) = maxWorkers
  /\ Len(jobs) > batchStart + maxWorkers

\* C9: iterations are numbered 1, 2, 3, ... without gaps and never exceed
\* maxIterations; after an iteration with jobs run() goes on to the next
\* iteration exactly when the iteration number is below maxIterations; and
\* run() ends.
C9_IterationBound ==
  /\ [](/\ iteration <= maxIterations
        /\ Len(results) <= iteration
        /\ \A k \in 1..Len(results) : results[k].iteration = k
        /\ (pc = "pause" /\ ~AnalysedEmpty) =>
             (continueLoop <=> iteration < maxIterations))
  /\ [][iteration' # iteration =>
          /\ iteration' = iteration + 1
          /\ iteration # 0 => (pc = "pause" /\ Len(results) = iteration /\ Len(jobs) > 0)]_vars
  /\ [][(pc = "pause" /\ pc' # "pause") =>
          ((iteration' = iteration + 1) <=> (Len(jobs) > 0 /\ iteration < maxIterations))]_vars
  /\ <>(pc = "done")

\* C9 witness: run() returned after maxIterations iterations that all had
\* jobs.
C9_Witness ==
  /\ pc = "done"
  /\ runResult = "returned"
  /\ iteration = maxIterations
  /\ Len(results) = maxIterations

\* C10 (as claimed): runAnalysis never lets an exception propagate to
\* runIteration.
C10_AnalysisNeverThrows == analysis # "threw"

\* mergeBranches has returned after a fetch that succeeded.
MergeReturned == pc = "merged" /\ mergeIdx > 0

\* C11 (as claimed): whatever merges fail, no merge is in progress when the
\* next merge is attempted, and when mergeBranches returns every branch of
\* the list was attempted once, in list order, no merge is left in progress
\* and the mainline holds the branches whose merge succeeded.
C11_SkipAndContinue ==
  /\ pc = "merge_branch" => ~mergeInProgress
  /\ MergeReturned =>
       /\ attempts = branches
       /\ ~mergeInProgress
       /\ Len(merged) <= Len(attempts)

\* C12 (as claimed): mergeBranches on a non-empty list fetches once before the
\* first merge attempt, never pushes while branches are still to be attempted,
\* and has pushed exactly once when it returns, whatever the merges and their
\* aborts came to.
C12_SingleFetchSinglePush ==
  /\ fetches <= 1
  /\ pushes <= 1
  /\ Len(attempts) > 0 => fetches = 1
  /\ pc \in {"merge_branch", "merge_abort"} => pushes = 0
  /\ pushes = 1 => attempts = branches
  /\ MergeReturned => pushes = 1

\* C13 (as claimed): the branches are attempted in the order in which their
\* jobs completed.
C13_MergeOrderIsCompletionOrder ==
  \A k \in 1..Len(attempts) :
    /\ k <= Len(finishOrder)
    /\ attempts[k] = BranchName(iteration, jobs[finishOrder[k]])

\* List positions of the successful jobs of the batches that have settled.
SuccessPositions == {w \in 1..Len(jobs) : w <= batchStart /\ wok[w]}

\* The k-th position of SuccessPositions in list order.
NthSuccess(k) ==
  CHOOSE w \in SuccessPositions : Cardinality({v \in SuccessPositions : v < w}) = k - 1

\* C13 (amended): the branches handed to mergeBranches are those of the
\* successful jobs in the order of the job list, whatever the order in which
\* the jobs of a batch completed, and they are attempted in that order.
C13_MergeOrderIsListOrder ==
  /\ Len(branches) = Cardinality(SuccessPositions)
  /\ \A k \in 1..Len(branches) : branches[k] = BranchName(iteration, jobs[NthSuccess(k)])
  /\ Len(attempts) <= Len(branches)
  /\ \A k \in 1..Len(attempts) : attempts[k] = branches[k]

\* C13 witness: the second job of a batch completed before the first, both
\* succeeded, and both branches have been attempted, the first job's first.
C13_Witness ==
  /\ Len(jobs) = 2
  /\ jobs[1] # jobs[2]
  /\ finishOrder = <<2, 1>>
  /\ attempts = <<BranchName(iteration, jobs[1]), BranchName(iteration, jobs[2])>>

\* Branch names recorded for the iterations before the current one.
EarlierBranches ==
  UNION {{results[k].branches[n] : n \in 1..Len(results[k].branches)} :
           k \in {j \in 1..Len(results) : results[j].iteration < iteration}}

\* C14 (as claimed): the branch names of the workers started in this
\* iteration are pairwise distinct and distinct from the branch names of
\* every earlier iteration.
C14_BranchDisjointness ==
  \A v \in Started :
    /\ BranchName(iteration, jobs[v]) \notin EarlierBranches
    /\ \A w \in Started :
         v # w => BranchName(iteration, jobs[v]) # BranchName(iteration, jobs[w])

\* No file-watcher event is in flight (the coordinator's events are handled
\* inside the call that emits them, so none is ever in flight between steps).
Settled == watchQueue = <<>>

\* The state recomputed from the current contents of the four buckets.
RecomputedCounts == [k \in Buckets |-> Cardinality(bucket[k])]
RecomputedLists == [k \in Buckets |-> SortIds(bucket[k])]

\* C15: whenever nothing is in flight, the body GET /api/state answers with
\* holds the per-bucket counts and lists of the job directory as it is, and
\* the initial message sent to an observer connecting now carries that same
\* state; when the dashboard server shares the coordinator's process this
\* holds even while file-watcher events are in flight.
C15_SnapshotReconstruction ==
  dashboard # "absent" =>
    /\ (Settled \/ dashboard = "same-process") =>
         /\ HandleStateRequest(World).jobs = RecomputedCounts
         /\ HandleStateRequest(World).jobsList = RecomputedLists
    /\ \A c \in Conns :
         LET st == OnConnection(World, c)
         IN  st.rx[c][Len(st.rx[c])].data = HandleStateRequest(World)

\* C15 witness: run() has ended after two iterations and a dashboard server
\* in a process of its own has caught up with the job directory, which holds
\* a record in completed.
C15_Witness ==
  /\ dashboard = "other-process"
  /\ Settled
  /\ iteration = 2
  /\ bucket["completed"] # {}
  /\ dashState.jobs["completed"] = 1
  /\ dashState.jobs["pending"] = 0
  /\ pc = "done"

\* The statuses of the job:status events emitted for job x, in order.
StatusEvents(x) ==
  LET evs == SelectSeq(emitted, LAMBDA e : e.type = "job:status" /\ e.job = x)
  IN  [k \in 1..Len(evs) |-> evs[k].status]

\* C16: with a listener on the event layer throughout, a job of the first
\* iteration that was created in pending, moved to in-progress and then to
\* completed is in completed and in no other bucket, and exactly two
\* job:status events were emitted for it: in-progress, then completed.  While
\* it is in in-progress exactly the first was emitted, while in pending none.
C16_LifecycleScenario ==
  (dashboard = "same-process" /\ iteration = 1) =>
    \A x \in created :
      /\ x \in bucket["pending"] => StatusEvents(x) = <<>>
      /\ x \in bucket["in-progress"] => StatusEvents(x) = <<"in-progress">>
      /\ x \in bucket["completed"] =>
           /\ BucketsHolding(x) = {"completed"}
           /\ StatusEvents(x) = <<"in-progress", "completed">>

\* C16 witness: both jobs of a batch have gone from pending through
\* in-progress to completed under a listener.
C16_Witness ==
  /\ dashboard = "same-process"
  /\ iteration = 1
  /\ jobs = <<1, 2>>
  /\ bucket["completed"] = {1, 2}
  /\ StatusEvents(2) = <<"in-progress", "completed">>

\* The events emitted in a step, and those of one type among them.
NewEvents == SubSeq(emitted', Len(emitted) + 1, Len(emitted'))
NewOfType(t) == SelectSeq(NewEvents, LAMBDA e : e.type = t)

\* The records that leave a bucket in a step.
Leaving(k) == bucket[k] \ bucket'[k]

\* C17: with a listener on the event layer, in every step of the coordinator
\* (a) one job:status event is emitted for each record that leaves pending or
\* in-progress, and none else; (b) each such event names the bucket the
\* record is in after the step and a record that left the bucket before it;
\* (c) one job:created event is emitted for each record writeJobFiles writes,
\* in the order of the job list, the record being in pending; (d) the
\* listener, which reads the job directory while the event is emitted, has
\* seen the job directory as it is after the step.
C17_SynchronousNotification ==
  [][dashboard = "same-process" =>
       /\ Len(NewOfType("job:status")) =
            Cardinality(Leaving("pending")) + Cardinality(Leaving("in-progress"))
       /\ \A k \in 1..Len(NewOfType("job:status")) :
            LET e == NewOfType("job:status")[k]
            IN  /\ e.status \in Buckets \ {"pending"}
                /\ e.job \in bucket'[e.status]
                /\ e.job \in Leaving(IF e.status = "in-progress" THEN "pending"
                                      ELSE "in-progress")
       /\ Len(NewOfType("job:created")) = (IF written' > written THEN written' - written ELSE 0)
       /\ \A k \in 1..Len(NewOfType("job:created")) :
            /\ NewOfType("job:created")[k].job = jobs'[written + k]
            /\ jobs'[written + k] \in bucket'["pending"]
       /\ (Len(NewOfType("job:status")) + Len(NewOfType("job:created")) > 0) =>
            /\ dashState'.jobs = [k \in Buckets |-> Cardinality(bucket'[k])]
            /\ dashState'.jobsList = [k \in Buckets |-> SortIds(bucket'[k])]
  ]_vars

\* C17 witness: under a listener, a job was created, started and moved to
\* failed, and another moved to completed, each with its event.
C17_Witness ==
  /\ dashboard = "same-process"
  /\ \E i \in 1..Len(emitted) : emitted[i].type = "job:created"
  /\ \E i \in 1..Len(emitted) :
       emitted[i].type = "job:status" /\ emitted[i].status = "failed"
  /\ \E i \in 1..Len(emitted) :
       emitted[i].type = "job:status" /\ emitted[i].status = "completed"

\* spawnWorker of position w attempts, in this step, its move out of pending
\* (at its start) or out of in-progress (at its end).
AttemptsStart(w) == wpc[w] = "idle" /\ wpc'[w] = "create"
AttemptsEnd(w) == wpc[w] \notin {"idle", "delete"} /\ wpc'[w] = "delete"

\* C20: when spawnWorker attempts to move a record that is not in the source
\* bucket, the record is put into no bucket and no job:status event is
\* emitted for it; at the end of a worker, where the attempt is the only
\* access to the job directory in the step, the four buckets and the list of
\* emitted events are unchanged.
C20_MissingRecordNoOp ==
  [][\A w \in Slots :
       /\ (AttemptsEnd(w) /\ jobs[w] \notin bucket["in-progress"]) =>
            /\ bucket' = bucket
            /\ emitted' = emitted
       /\ (AttemptsStart(w) /\ jobs[w] \notin bucket["pending"]) =>
            /\ \A k \in Buckets : (jobs[w] \in bucket'[k]) <=> (jobs[w] \in bucket[k])
            /\ \A i \in 1..Len(NewOfType("job:status")) :
                 NewOfType("job:status")[i].job # jobs[w]
  ]_vars

\* C20 witness: two jobs of a batch carry the same id; the first failed and
\* moved the record to failed, the second succeeded and found no record in
\* in-progress: the record is still in failed only, and the events of the id
\* are those of the first job.
C20_Witness ==
  /\ dashboard = "same-process"
  /\ jobs = <<1, 1>>
  /\ ~wok[1]
  /\ wok[2]
  /\ wpc[2] = "resolved"
  /\ BucketsHolding(1) = {"failed"}
  /\ StatusEvents(1) = <<"in-progress", "failed">>

\* C18: the first message on every open connection is an initial message,
\* no later message on it is one, and as long as it is the only message it
\* carries the dashboard state as it is (every change of that state is
\* broadcast, so it was sent with the state of the moment of connecting).
C18_InitialSnapshotOnConnect ==
  \A c \in Conns :
    /\ conn[c] = "none" => received[c] = <<>>
    /\ conn[c] = "open" =>
         /\ Len(received[c]) >= 1
         /\ received[c][1].type = "initial"
         /\ \A k \in 2..Len(received[c]) : received[c][k].type # "initial"
         /\ Len(received[c]) = 1 => received[c][1].data = dashState

\* C18 witness: an observer that connected in the middle of an iteration has
\* received its initial message with one record in in-progress and then
\* broadcast events.
C18_Witness ==
  \E c \in Conns :
    /\ conn[c] = "open"
    /\ Len(received[c]) >= 3
    /\ received[c][1].type = "initial"
    /\ received[c][1].data.jobs["in-progress"] = 1

\* The messages on connection c that are events of the coordinator.
CoordinatorMessages(c) ==
  SelectSeq(received[c], LAMBDA m : m.type # "initial" /\ m.n > 0)

\* C19 as stated: every message after the initial one on a connection is an
\* event the coordinator emitted, and they arrive in the order of emission,
\* none of them twice.
C19_ReceivedAreEmitted ==
  \A c \in Conns :
    LET msgs == SelectSeq(received[c], LAMBDA m : m.type # "initial")
    IN  /\ \A i \in 1..Len(msgs) :
             /\ msgs[i].n \in 1..Len(emitted)
             /\ msgs[i] = emitted[msgs[i].n]
        /\ \A i \in 1..Len(msgs) : \A j \in 1..Len(msgs) :
             i < j => msgs[i].n < msgs[j].n

\* C19 as amended: on every open connection the coordinator's events received are events
\* the coordinator emitted, in the order of their emission, none of them
\* twice.
C19_PerObserverEventOrder ==
  \A c \in Conns :
    LET msgs == CoordinatorMessages(c)
    IN  /\ \A i \in 1..Len(msgs) :
             /\ msgs[i].n <= Len(emitted)
             /\ msgs[i] = emitted[msgs[i].n]
        /\ \A i \in 1..Len(msgs) : \A j \in 1..Len(msgs) :
             i < j => msgs[i].n < msgs[j].n

\* C19 witness: an open connection has received events of the coordinator
\* with an event of the file watcher among them.
C19_Witness ==
  \E c \in Conns :
    /\ conn[c] = "open"
    /\ Len(CoordinatorMessages(c)) >= 3
    /\ \E i \in 2..Len(received[c]) :
         /\ received[c][i].n = 0
         /\ \E j \in 2..Len(received[c]) : j < i /\ received[c][j].n > 0
         /\ \E j \in 2..Len(received[c]) : j > i /\ received[c][j].n > 0

\* C30: in either class, with a provider that has no checkpoint function, the step of the
\* pre-iteration checkpoint leaves run() only when the analysis that follows
\* it in the same stretch throws and otherwise goes on to the analysis; the
\* step of the post-iteration checkpoint goes on to the continue/stop
\* decision; neither changes anything but the position of run() and what the
\* code following the checkpoint changes.
C30_CapabilityGatedCheckpoint ==
  [][~hasCheckpoint =>
       /\ pc = "pre_checkpoint" =>
            /\ pc' = "analysis_snapshot" \/ analysis' = "threw"
            /\ pc' = "analysis_snapshot" =>
                 UNCHANGED <<coordinatorSprite, coordinatorDeletes, runResult, thrown,
                             iterVars, storeVars, batchVars, workerVars, mergeVars,
                             workerSprites, dashVars>>
       /\ pc = "post_checkpoint" =>
            /\ pc' = "pause"
            /\ continueLoop' = ContinueAfter(iteration)
            /\ UNCHANGED <<coordinatorSprite, coordinatorDeletes, runResult, thrown,
                           iteration, results, storeVars, batchVars, workerVars,
                           mergeVars, workerSprites>>
  ]_vars

\* C24: the history changes only by the append of one result, made when
\* mergeBranches has returned in an iteration that generated jobs, and the
\* result appended carries the number of that iteration; when an iteration
\* that generated jobs is past that point (at its post-iteration checkpoint,
\* in the pause after it, or left for the next iteration) the last entry of the
\* history is the result of that iteration; the numbers in the history are
\* strictly increasing.
C24_IterationResultRecording ==
  [][/\ \/ results' = results
        \/ /\ pc = "merged"
           /\ Len(jobs) > 0
           /\ iteration' = iteration
           /\ Len(results') = Len(results) + 1
           /\ SubSeq(results', 1, Len(results)) = results
           /\ results'[Len(results')].iteration = iteration
     /\ (pc' \in {"post_checkpoint", "pause"} /\ Len(jobs') > 0) =>
          /\ Len(results') >= 1
          /\ results'[Len(results')].iteration = iteration'
     /\ (iteration' # iteration /\ Len(jobs) > 0) =>
          /\ Len(results) >= 1
          /\ results[Len(results)].iteration = iteration
     /\ \A i \in 1..Len(results') : \A j \in 1..Len(results') :
          i < j => results'[i].iteration < results'[j].iteration
  ]_vars

\* C24 witness: two iterations have recorded their results and the run has
\* ended.
C24_Witness ==
  /\ pc = "done"
  /\ Len(results) = 2
  /\ results[1].iteration = 1
  /\ results[2].iteration = 2
  /\ results[1].jobsFailed = 1

\* The record with this id leaves bucket k, or enters it, in this step.
Leaves(id, k) == id \in bucket[k] /\ id \notin bucket'[k]
Enters(id, k) == id \notin bucket[k] /\ id \in bucket'[k]

\* C22: a record enters in-progress only from pending and completed or
\* failed only from in-progress; a record that leaves pending is then in
\* in-progress, and one that leaves in-progress becomes a new record of
\* completed or of failed (it replaces no record already there); no record
\* leaves completed or failed.
C22_LifecycleDirectionAndRetention ==
  [][\A id \in JobIds :
       /\ Enters(id, "in-progress") => Leaves(id, "pending")
       /\ Enters(id, "completed") \/ Enters(id, "failed") => Leaves(id, "in-progress")
       /\ Leaves(id, "pending") => id \in bucket'["in-progress"]
       /\ Leaves(id, "in-progress") => Enters(id, "completed") \/ Enters(id, "failed")
       /\ ~Leaves(id, "completed")
       /\ ~Leaves(id, "failed")
  ]_vars

\* C23: a job of the generated list (a position of the list in an iteration)
\* has a worker dispatched only while none was dispatched for it before, and
\* its worker is forgotten only when the next iteration starts with a new
\* list; an id in the failed bucket stays there.
C23_NoRetry ==
  [][/\ \A w \in Slots :
          /\ (wpc'[w] = "create" /\ wpc[w] # "create") =>
               (wpc[w] = "idle" /\ w <= Len(jobs'))
          /\ (wpc[w] # "idle" /\ wpc'[w] = "idle") => iteration' = iteration + 1
     /\ \A id \in JobIds : id \in bucket["failed"] => id \in bucket'["failed"]
  ]_vars

\* C23 witness: the first job of a list of three has failed and its worker
\* has returned, and the batch after it is running.
C23_Witness ==
  /\ Len(jobs) = 3
  /\ wpc[1] = "resolved" /\ ~wok[1]
  /\ jobs[1] \in bucket["failed"]
  /\ wpc[3] = "clone"

\* The position of a worker in the protocol of spawnWorker: 0 before its
\* dispatch, 1 once the record is moved to in-progress and the environment
\* asked for, then the awaited calls of the try block in order.
ProtocolOrder ==
  <<"idle", "create", "clone", "branch", "gather", "oracle", "apply", "commit", "push">>
ProtocolIndex(p) == CHOOSE k \in 1..Len(ProtocolOrder) : ProtocolOrder[k] = p

\* C25: a worker goes through the protocol one step at a time in its order;
\* it returns success, and a record enters completed, only in the step that
\* follows a resolved push; hence every id in completed has a branch on the
\* remote, and so has every job reported as a success (by its worker, in
\* runWorkers' branch list, in a recorded result).
C25_PerJobProtocolOrder ==
  [][/\ \A w \in Slots :
          /\ (wpc'[w] # wpc[w] /\ wpc'[w] \in {"create", "clone", "branch", "gather",
                                               "oracle", "apply", "commit", "push"}) =>
               ProtocolIndex(wpc'[w]) = ProtocolIndex(wpc[w]) + 1
          /\ (wpc[w] = "idle" /\ wpc'[w] = "create") => jobs[w] \notin bucket'["pending"]
          /\ (wok'[w] /\ ~wok[w]) => wpc[w] = "push"
     /\ \A id \in JobIds :
          Enters(id, "completed") =>
            \E w \in Slots : jobs[w] = id /\ wpc[w] = "push" /\ wok'[w]
     /\ \A id \in bucket'["completed"] :
          \E it \in 1..iteration' : BranchName(it, id) \in remote'
     /\ \A w \in 1..Len(jobs') : wok'[w] => BranchName(iteration', jobs'[w]) \in remote'
     /\ \A k \in 1..Len(branches') : branches'[k] \in remote'
     /\ \A r \in 1..Len(results') : \A k \in 1..Len(results'[r].branches) :
          results'[r].branches[k] \in remote'
  ]_vars

\* C25 witness: a job has gone through the whole protocol, its record is in
\* completed and its branch on the remote, while a sibling failed before its
\* push and has no branch there.
C25_Witness ==
  /\ jobs = <<1, 2>>
  /\ wpc[1] = "resolved" /\ wok[1]
  /\ wpc[2] = "resolved" /\ ~wok[2]
  /\ bucket["completed"] = {1}
  /\ remote = {BranchName(1, 1)}

\* The branches of the jobs whose spawnWorker returned success, in list order.
RECURSIVE SuccessBranches(_)
SuccessBranches(w) ==
  IF w > Len(jobs)
  THEN <<>>
  ELSE (IF wok[w] THEN <<BranchName(iteration, jobs[w])>> ELSE <<>>) \o SuccessBranches(w + 1)

Range(seq) == {seq[k] : k \in 1..Len(seq)}

\* C26: once mergeBranches has been called in an iteration, the list it was
\* given holds the branches of the jobs that returned success and no others,
\* and the branch of a job that returned failure is not in that list, has not
\* been handed to git merge and is not merged.
C26_OnlySuccessfulBranchesMerged ==
  mergeCalls >= 1 =>
    /\ branches = SuccessBranches(1)
    /\ \A w \in 1..Len(jobs) :
         ~wok[w] =>
           BranchName(iteration, jobs[w]) \notin
             Range(branches) \cup Range(attempts) \cup Range(merged)

\* C21: no spawnWorker rejects because the record it was about to move was
\* taken away by another process (a rejected spawnWorker rejects Promise.all
\* of its batch, runWorkers, runIteration and run(): the siblings' results
\* are dropped and no Iteration Result is recorded).
C21_ExternalMutationRecoverable ==
  \A w \in Slots : wpc[w] # "enoent"

\* The requested file lies in the public directory or below it.
UnderPublicRoot(url) ==
  LET resolved == Normalize(PUBLIC_DIR \o (IF url = <<>> THEN <<"index.html">> ELSE url))
      root == Normalize(PUBLIC_DIR)
  IN  Len(resolved) >= Len(root) /\ SubSeq(resolved, 1, Len(root)) = root

\* C27: a static request is answered 403 exactly when its resolved path
\* lies outside the public root, and then nothing is read; a path under the
\* root is answered 200 or 404 and read from the public directory.
C27_StaticPathTraversal ==
  response.status # 0 =>
    /\ response.status = 403 <=> ~UnderPublicRoot(reqUrl)
    /\ ~UnderPublicRoot(reqUrl) => response.read = <<>>
    /\ UnderPublicRoot(reqUrl) => response.status \in {200, 404}

\* The first array-shaped JSON substring of the text: it starts at the first
\* "[" that opens a list which closes within the text; <<>> when there is none.
FirstJsonArray(text) ==
  LET starts == {i \in 1..Len(text) :
                   /\ text[i] = "["
                   /\ \E j \in i..Len(text) : JsonParses(SubSeq(text, i, j))}
  IN  IF starts = {} THEN <<>>
      ELSE LET i == CHOOSE x \in starts : \A y \in starts : x <= y
               j == CHOOSE y \in i..Len(text) : JsonParses(SubSeq(text, i, y))
           IN  SubSeq(text, i, j)

\* The text is exactly one JSON array of job objects, each with an
\* array-valued field.
IsJobArray(text) ==
  /\ JsonParses(text)
  /\ text[1] = "["
  /\ Elements(text) # <<>>
  /\ \A e \in 1..Len(Elements(text)) :
       /\ Elements(text)[e][1] = "{"
       /\ \E k \in 1..Len(Elements(text)[e]) : Elements(text)[e][k] = "["

\* C29: Array extraction.  For every oracle output text, runAnalysis returns
\* the job list obtained by parsing the first top-level array-shaped JSON
\* substring of the text (the empty list when there is none); in particular,
\* when the text is exactly one valid JSON array of job objects with
\* array-valued fields, the returned list is that array, in every runner.
C29_ArrayExtraction ==
  parsed.done =>
    /\ parsed.jobs = (IF FirstJsonArray(output) = <<>> THEN <<>>
                      ELSE Elements(FirstJsonArray(output)))
    /\ IsJobArray(output) => parsed.jobs = Elements(output)

\* The place of a priority in the order critical, high, medium, low.
ClaimedRank(q) ==
  CHOOSE k \in 1..4 : <<"critical", "high", "medium", "low">>[k] = q

\* a comes before b in lexicographic order.
LexLess(a, b) ==
  \E k \in 1..(Len(a) + 1) :
    /\ k <= Len(b)
    /\ \A h \in 1..(k - 1) : a[h] = b[h]
    /\ k > Len(a) \/ a[k] < b[k]

\* The list is sorted by priority and, within one priority, by id.
InClaimedOrder(l) ==
  \A i, j \in 1..Len(l) :
    i < j =>
      \/ ClaimedRank(l[i].priority) < ClaimedRank(l[j].priority)
      \/ /\ l[i].priority = l[j].priority
         /\ LexLess(l[i].id, l[j].id)

\* The list holds each readable record of the files once and nothing else.
IsPermutationOfReadable(l, files) ==
  LET readable == {JobOf(files[k]) : k \in {h \in 1..Len(files) : files[h].readable}}
  IN  /\ {l[k] : k \in 1..Len(l)} = readable
      /\ Len(l) = Cardinality(readable)

\* C28: Bucket list ordering.  Every per-bucket job list the dashboard server
\* produces (in the state snapshot and in the answer to GET /api/jobs/{bucket})
\* is sorted by priority in the order critical, high, medium, low and, among
\* jobs of equal priority, by job id in ascending lexicographic order; the
\* list is a permutation of the readable job records of the bucket.
C28_BucketListOrdering ==
  /\ listed.done =>
       /\ InClaimedOrder(listed.jobs)
       /\ IsPermutationOfReadable(listed.jobs, dirFiles)
  /\ listed.answered =>
       /\ InClaimedOrder(listed.body)
       /\ listed.body # <<>> => listed.body = listed.jobs

\* A bucket of four files, one of them unreadable, was listed and served: two
\* records of one priority came in descending id order, ahead of a record of
\* a more urgent priority.
C28_Witness ==
  /\ listed.answered
  /\ Len(dirFiles) = 4
  /\ ~dirFiles[1].readable
  /\ dirFiles[2].readable /\ dirFiles[3].readable /\ dirFiles[4].readable
  /\ dirFiles[2].priority = dirFiles[3].priority
  /\ dirFiles[2].id = <<2>> /\ dirFiles[3].id = <<1, 0>>
  /\ dirFiles[4].priority = "critical" /\ dirFiles[2].priority = "medium"
  /\ Len(listed.body) = 3
  /\ listed.body[1].id = dirFiles[4].id
  /\ listed.body[2].id = <<1, 0>>
  /\ listed.body[3].id = <<2>>

\* initialize() failed: run() is past its try block and no iteration began.
InitializeFailed == pc \in {"cleanup", "done"} /\ iteration = 0 /\ runResult # "aborted"

\* No isolated environment was ever asked for and no iteration began.
NothingStarted ==
  /\ coordinatorSprite = "null"
  /\ workerSprites = 0
  /\ iteration = 0
  /\ pc \notin {"init_create", "init_clone"}

\* C31: Fatal startup errors.  When a required credential is missing at
\* startup the run is aborted before any isolated environment is created and
\* before any iteration starts; when provisioning or initialising the
\* coordinating environment fails, no iteration starts, the error is surfaced
\* to the caller of run(), and cleanup of the coordinating environment is
\* attempted if it had been created.
C31_FatalStartupErrors ==
  [][/\ ~(RequiredEnv \subseteq env) =>
          /\ NothingStarted'
          /\ pc' # "idle" => (pc' = "done" /\ runResult' = "aborted")
     /\ ((pc \in {"init_create", "init_clone"} /\ pc' \in {"cleanup", "done"})
           \/ InitializeFailed) =>
          /\ InitializeFailed'
          /\ pc' = "done" => runResult' = "threw"
          /\ coordinatorSprite' # "null" =>
               (coordinatorSprite' = "deleted" /\ coordinatorDeletes' = 1)]_vars

\* The clone into the coordinator sprite failed: run() threw after deleting
\* the sprite, before any iteration.
C31_Witness ==
  /\ pc = "done"
  /\ runResult = "threw"
  /\ iteration = 0
  /\ coordinatorSprite = "deleted"
  /\ coordinatorDeletes = 1
  /\ env = RequiredEnv

\* The ids of a list.
IdsOf(list) == {list[k] : k \in 1..Len(list)}

\* A state of the dashboard server is consistent with itself and with the
\* job directory b.
ConsistentSnapshot(ds, b) ==
  /\ \A k \in Buckets : ds.jobs[k] = Len(ds.jobsList[k])
  /\ \A k, h \in Buckets : k # h => IdsOf(ds.jobsList[k]) \cap IdsOf(ds.jobsList[h]) = {}
  /\ \A k \in Buckets : b[k] \subseteq UNION {IdsOf(ds.jobsList[h]) : h \in Buckets}

\* C32: Snapshot consistency under interleaving.  When the dashboard server
\* recomputes its state while the coordinator, in another process, moves job
\* records between buckets, every state it publishes is consistent: each
\* count equals the length of the bucket's list, and no job id is in the
\* lists of two buckets, or in none while its record exists.
C32_SnapshotConsistency ==
  [][(scan.pos = 8 /\ scan'.pos = 0) => ConsistentSnapshot(dashState', bucket')]_vars

\* C33: Dashboard iteration number never regresses.  Across any sequence of
\* coordinator events and file-watcher events the iteration number of the
\* dashboard state never decreases, and once iteration:start{n} has been
\* processed the dashboard state reports an iteration of at least n until the
\* next iteration:start.
C33_IterationNeverRegresses ==
  [][/\ dashState'.iteration >= dashState.iteration
     /\ dashboard = "same-process" => dashState'.iteration >= iteration']_vars

\* The positions of the iteration:start events among the emitted events.
StartPositions == {i \in 1..Len(emitted) : emitted[i].type = "iteration:start"}

\* The positions of the events emitted after the iteration:start at i and
\* before the next one.
EventsOfIteration(i) ==
  {p \in (i + 1)..Len(emitted) : \A q \in StartPositions : q <= i \/ q > p}

\* The jobs of the job:created events at the positions P, in order.
RECURSIVE CreatedAmong(_, _)
CreatedAmong(P, k) ==
  IF k > Len(emitted) THEN <<>>
  ELSE IF k \in P /\ emitted[k].type = "job:created"
       THEN <<emitted[k].job>> \o CreatedAmong(P, k + 1)
  ELSE CreatedAmong(P, k + 1)

\* C34: Event order within an iteration.  The events of iteration n come in
\* this order: iteration:start{n}, then one job:created per generated job in
\* list order before any job:status, then for each job its job:status
\* in-progress before its job:status completed or failed, and
\* iteration:complete last; an iteration that generates no job emits no
\* iteration:complete.
C34_EventOrderWithinIteration ==
  /\ emitted # <<>> => emitted[1].type = "iteration:start"
  /\ \A i \in StartPositions :
       LET seg == EventsOfIteration(i)
       IN  /\ \A p, q \in seg :
                 (p < q /\ emitted[p].type = "job:status") => emitted[q].type # "job:created"
           /\ \A q \in seg :
                 (emitted[q].type = "job:status" /\ emitted[q].status \in {"completed", "failed"})
                   => \E p \in seg : /\ p < q
                                     /\ emitted[p].type = "job:status"
                                     /\ emitted[p].status = "in-progress"
                                     /\ emitted[p].job = emitted[q].job
           /\ \A p \in seg :
                 emitted[p].type = "iteration:complete" =>
                   /\ \A q \in seg : q <= p
                   /\ emitted[p].iteration = emitted[i].iteration
                   /\ \E q \in seg : emitted[q].type = "job:created"
           /\ emitted[i].iteration = iteration =>
                 CreatedAmong(seg, 1) = SubSeq(jobs, 1, Len(CreatedAmong(seg, 1)))
           /\ (emitted[i].iteration = iteration /\ analysis = "returned" /\ Len(jobs) > 0
                 /\ \E p \in seg : emitted[p].type = "job:status")
                => CreatedAmong(seg, 1) = jobs

\* An iteration of two different jobs, one completed and one failed, has
\* emitted all its events, iteration:complete last.
C34_Witness ==
  /\ Len(emitted) = 8
  /\ Len(jobs) = 2 /\ jobs[1] # jobs[2]
  /\ emitted[8].type = "iteration:complete"
  /\ \E p \in 1..Len(emitted) : emitted[p].type = "job:status" /\ emitted[p].status = "failed"
  /\ \E p \in 1..Len(emitted) : emitted[p].type = "job:status" /\ emitted[p].status = "completed"

\* The worker of position w is at work: its sprite is alive and its try
\* block has neither reached the move to completed nor the catch block.
AtWork(w) ==
  /\ wsprite[w] = "alive"
  /\ \E k \in 1..Len(WorkerSteps) : wpc[w] = WorkerSteps[k]

\* C35: Worker implies in-progress.  Whenever a worker environment is alive
\* for a job whose outcome is not yet determined, the job's record is in the
\* in-progress bucket; no worker runs for a job whose transition from pending
\* to in-progress did not take place.
C35_WorkerImpliesInProgress ==
  \A w \in Slots : AtWork(w) => jobs[w] \in bucket["in-progress"]

\* The connections that have connected and whose close or error handler has
\* not run.
ConnectedNotClosed == {c \in FanConns : fan.ready[c] \in {"open", "closing"}}

\* C36: Fan-out isolation and listener set.  The set of observer connections
\* the dashboard server holds is exactly the set of connections that have
\* connected and not yet closed or errored; a broadcast delivers the event to
\* every connection of the set that is open, and a failing send or a
\* connection that is not open neither keeps the event from the other open
\* connections nor removes them from the set.
C36_FanOutIsolation ==
  [][/\ IdsOf(fan'.clients) = ConnectedNotClosed'
     /\ Len(fan'.clients) = Cardinality(ConnectedNotClosed')
     /\ fan'.n # fan.n =>
          /\ fan'.clients = fan.clients
          /\ \A c \in FanConns :
               IF c \in IdsOf(fan.clients) /\ fan.ready[c] = "open" /\ c \notin fan'.threw
               THEN fan'.inbox[c] = Append(fan.inbox[c], fan'.n)
               ELSE fan'.inbox[c] = fan.inbox[c]]_vars

\* A broadcast in which the send to the first client threw and the second,
\* open client got the event.
C36_Witness ==
  /\ fan.n = 1
  /\ fan.clients = <<1, 2>>
  /\ fan.ready[1] = "open" /\ fan.ready[2] = "open"
  /\ fan.threw = {1}
  /\ fan.inbox[1] = <<0>>
  /\ fan.inbox[2] = <<0, 1>>

\* The client is live: connected and not in fallback mode.
Live == client.isConnected /\ ~client.fallbackMode

\* The client polls exactly while it is not live, and never makes more than
\* maxReconnectAttempts attempts in a row, counted from 0 at every open.
ClientModes ==
  /\ client.reconnectAttempts <= maxReconnectAttempts
  /\ client.ws = "open" => client.reconnectAttempts = 0

\* A tick of the poll interval fetches the state exactly when the client is
\* not live.
PollsWhileNotLive ==
  [][client'.polled # client.polled => (client'.polled <=> ~Live)]_vars

\* C37: Dashboard client mode switching.  The client makes at most
\* maxReconnectAttempts consecutive reconnect attempts, the counter being
\* reset at every successful open, and whenever the push channel is available
\* again the client eventually returns to live mode, however many attempts
\* failed before.  (The polling clause is PollsWhileNotLive.)
C37_ClientModeSwitching ==
  /\ []ClientModes
  /\ pushUp ~> (Live \/ ~pushUp)

\* git checkout -b has just created the branch of a job.
BranchCreated == Len(local'.created) > Len(local.created)

\* C38: Local runner returns to mainline between jobs.  When a job's branch
\* is created the working copy is on the mainline with no uncommitted
\* changes, and the commit made for a job holds no change of another job.
C38_ReturnsToMainline ==
  /\ [][BranchCreated => local.head = Mainline /\ local.dirty = {}]_vars
  /\ [](\A i \in 1..Len(local.commits) :
          local.commits[i].changes \subseteq {local.commits[i].job})

====
